---------------------------- MODULE Spec2Model ----------------------------
(***************************************************************************)
(* Model of scripts/fetch-x-bookmarks.mjs: the OAuth 1.0a request signer   *)
(* (generateOAuthSignature, createOAuthHeader) and the script run around   *)
(* it.                                                                     *)
(*                                                                         *)
(* A JavaScript string is a sequence of one-character strings, so that     *)
(* percent-encoding, sorting and joining are computed character by         *)
(* character.  The model covers printable ASCII (codes 32..126).           *)
(* A JavaScript object is the sequence of its <<key, value>> entries in    *)
(* insertion order, with pairwise distinct keys.                           *)
(***************************************************************************)
EXTENDS Integers, Sequences, FiniteSets, TLC

(***************************************************************************)
(* Strings                                                                 *)
(***************************************************************************)
Range(s) == {s[i] : i \in DOMAIN s}

\* The printable ASCII characters, in code order: Printable[i] has code 31 + i.
\* The grave accent (code 96) cannot be written in a TLA+ string and is named.
Printable ==
  <<" ", "!", "\"", "#", "$", "%", "&", "'", "(", ")", "*", "+", ",", "-", ".", "/", 
    "0", "1", "2", "3", "4", "5", "6", "7", "8", "9", ":", ";", "<", "=", ">", "?", "@", "A",
     "B", "C", "D", "E", "F", "G", "H", "I", "J", "K", "L", "M", "N", "O", "P", "Q", "R", "S", "T", "U", "V", "W", "X", "Y", "Z", 
    "[", "\\", "]", "^", "_", "GRAVE", "a", "b", "c", "d", "e", "f", "g", "h", "i", "j", "k", "l", "m", "n", "o", "p", "q", "r", "s", "t",
     "u", "v", "w", "x", "y", "z", "{", "|", "}", "~">>

Chars == Range(Printable)

\* String.prototype.charCodeAt for one character.
CharCode == [c \in Chars |-> 31 + (CHOOSE i \in DOMAIN Printable : Printable[i] = c)]

\* String.fromCharCode for a printable code.
FromCharCode(n) == Printable[n - 31]

UpperAlpha == {Printable[i] : i \in 34..59}
LowerAlpha == {Printable[i] : i \in 66..91}
Digits == {Printable[i] : i \in 17..26}
AlphaNum == UpperAlpha \cup LowerAlpha \cup Digits

\* The concatenation of parts[lo], ..., parts[hi], by halves.
RECURSIVE ConcatRange(_, _, _)
ConcatRange(parts, lo, hi) ==
  IF lo > hi THEN <<>>
  ELSE IF lo = hi THEN parts[lo]
  ELSE LET mid == (lo + hi) \div 2
       IN  ConcatRange(parts, lo, mid) \o ConcatRange(parts, mid + 1, hi)

Concat(parts) == ConcatRange(parts, 1, Len(parts))

\* Array.prototype.join: the strings of parts with sep between them.
Join(parts, sep) ==
  Concat([i \in 1..(2 * Len(parts) - 1) |->
            IF i % 2 = 1 THEN parts[(i + 1) \div 2] ELSE sep])

\* a < b in the order of Array.prototype.sort without a comparator: the
\* strings are compared code unit by code unit, a proper prefix first.
StrLess(a, b) ==
  LET n == IF Len(a) < Len(b) THEN Len(a) ELSE Len(b)
      differ == {i \in 1..n : a[i] # b[i]}
  IN  IF differ = {} THEN Len(a) < Len(b)
      ELSE LET i == CHOOSE j \in differ : \A k \in differ : j <= k
           IN  CharCode[a[i]] < CharCode[b[i]]

\* String.prototype.substring(from, to) with 0-based from <= to.
Substring(s, from, to) ==
  LET hi == IF to > Len(s) THEN Len(s) ELSE to
      lo == IF from > hi THEN hi ELSE from
  IN  [i \in 1..(hi - lo) |-> s[lo + i]]

\* Number.prototype.toString() of a natural number.
RECURSIVE NatToString(_)
NatToString(n) ==
  IF n < 10 THEN <<FromCharCode(48 + n)>>
  ELSE NatToString(n \div 10) \o <<FromCharCode(48 + (n % 10))>>

(***************************************************************************)
(* String methods                                                          *)
(***************************************************************************)
Min(S) == CHOOSE m \in S : \A x \in S : m <= x

\* pat occurs in s at position i.
StartsAt(s, i, pat) ==
  /\ i >= 1
  /\ i + Len(pat) - 1 <= Len(s)
  /\ \A j \in DOMAIN pat : s[i + j - 1] = pat[j]

\* The first place at or after from where pat occurs in s, 0 if there is none.
IndexOf(s, pat, from) ==
  LET hits == {i \in from..(Len(s) - Len(pat) + 1) : StartsAt(s, i, pat)}
  IN  IF hits = {} THEN 0 ELSE Min(hits)

\* String.prototype.includes
Includes(s, pat) == IndexOf(s, pat, 1) # 0

\* \s of a regular expression, as far as the texts of the model go.
Whitespace == {" ", "\n", "\t"}

\* String.prototype.trim
Trim(s) ==
  LET keep == {i \in DOMAIN s : s[i] \notin Whitespace}
  IN  IF keep = {} THEN <<>>
      ELSE SubSeq(s, CHOOSE i \in keep : \A j \in 1..(i - 1) : s[j] \in Whitespace,
                     CHOOSE i \in keep : \A j \in (i + 1)..Len(s) : s[j] \in Whitespace)

\* s.split('\n')[0]
FirstLine(s) ==
  LET nl == IndexOf(s, <<"\n">>, 1)
  IN  IF nl = 0 THEN s ELSE SubSeq(s, 1, nl - 1)

\* s.replace(/c/g, r) for a single character c.
ReplaceChar(s, c, r) == Concat([i \in DOMAIN s |-> IF s[i] = c THEN r ELSE <<s[i]>>])

(***************************************************************************)
(* Objects                                                                 *)
(***************************************************************************)
\* Object.keys: the keys in insertion order.
ObjectKeys(o) == [i \in DOMAIN o |-> o[i][1]]

HasKey(o, k) == \E i \in DOMAIN o : o[i][1] = k

\* o[k] for a key the object has.
Get(o, k) == o[CHOOSE i \in DOMAIN o : o[i][1] = k][2]

\* o[k] = v: an existing key keeps its place, a new key goes last.
Put(o, k, v) ==
  IF HasKey(o, k)
  THEN [i \in DOMAIN o |-> IF o[i][1] = k THEN <<k, v>> ELSE o[i]]
  ELSE Append(o, <<k, v>>)

\* { ...a, ...b }
RECURSIVE SpreadFrom(_, _, _)
SpreadFrom(acc, b, i) ==
  IF i > Len(b) THEN acc ELSE SpreadFrom(Put(acc, b[i][1], b[i][2]), b, i + 1)

Spread(a, b) == SpreadFrom(a, b, 1)

RECURSIVE InsertSorted(_, _)
InsertSorted(sorted, x) ==
  IF sorted = <<>> THEN <<x>>
  ELSE IF StrLess(x, Head(sorted)) THEN <<x>> \o sorted
  ELSE <<Head(sorted)>> \o InsertSorted(Tail(sorted), x)

RECURSIVE SortFrom(_, _)
SortFrom(a, i) ==
  IF i > Len(a) THEN <<>> ELSE InsertSorted(SortFrom(a, i + 1), a[i])

\* The array left as it is: the call of sort() forgotten.
Sort_forgotten(a) == a

\* Array.prototype.sort() of an array of strings (no comparator).
Sort(a) == SortFrom(a, 1)

(***************************************************************************)
(* encodeURIComponent                                                      *)
(***************************************************************************)
HexDigits == <<"0", "1", "2", "3", "4", "5", "6", "7", "8", "9", "A", "B", "C", "D", "E", "F">>

\* The characters encodeURIComponent leaves as they are (ECMA-262
\* uriUnescaped): letters, digits and - _ . ! ~ * ' ( )
UriMark == {"-", "_", ".", "!", "~", "*", "'", "(", ")"}

UriUnescaped == AlphaNum \cup UriMark

\* encodeURIComponent(...).replace(/%20/g, '+'): a space becomes '+'.
EncodeChar_form(c) ==
  IF c \in AlphaNum \cup UriMark THEN <<c>>
  ELSE IF c = " " THEN <<"+">>
  ELSE <<"%", HexDigits[(CharCode[c] \div 16) + 1], HexDigits[(CharCode[c] % 16) + 1]>>

\* One character of encodeURIComponent's result: an ASCII character outside
\* uriUnescaped becomes %XX, XX its code in uppercase hexadecimal.
EncodeChar(c) ==
  IF c \in UriUnescaped THEN <<c>>
  ELSE <<"%", HexDigits[(CharCode[c] \div 16) + 1], HexDigits[(CharCode[c] % 16) + 1]>>

encodeURIComponent(s) == Concat([i \in DOMAIN s |-> EncodeChar(s[i])])

(***************************************************************************)
(* HMAC-SHA1 and base64 (node:crypto)                                      *)
(***************************************************************************)
Base64Alphabet ==
  <<"A", "B", "C", "D", "E", "F", "G", "H", "I", "J", "K", "L", "M", "N", "O", "P", "Q", "R", "S", "T", "U", "V", "W", "X", "Y", "Z", 
    "a", "b", "c", "d", "e", "f", "g", "h", "i", "j", "k", "l", "m", "n", "o", "p", "q", "r", "s", "t", "u", "v", "w", "x", "y", "z", 
    "0", "1", "2", "3", "4", "5", "6", "7", "8", "9", "+", "/">>

HashModulus == 262144

\* A checksum of a string that depends on every character and on its place.
RECURSIVE HashRange(_, _, _)
HashRange(s, lo, hi) ==
  IF lo > hi THEN 0
  ELSE IF lo = hi THEN (CharCode[s[lo]] * (((lo * 37) % 61) + 1)) % HashModulus
  ELSE LET mid == (lo + hi) \div 2
       IN  (HashRange(s, lo, mid) + HashRange(s, mid + 1, hi)) % HashModulus

Hash(s) == HashRange(s, 1, Len(s))

\* createHmac('sha1', key).update(data).digest('base64').  The digest is a
\* library primitive; the model keeps what the signer relies on: the result
\* is a function of the key and of the data, over the base64 alphabet with
\* its '=' padding.  It is shortened to three digits and the padding.
HmacSha1Base64(key, data) ==
  LET h == (Hash(key) * 131 + Hash(data)) % HashModulus
  IN  <<Base64Alphabet[(h \div 4096) + 1],
        Base64Alphabet[((h \div 64) % 64) + 1],
        Base64Alphabet[(h % 64) + 1],
        "=">>

(***************************************************************************)
(* String constants of the script                                          *)
(***************************************************************************)
undefined == <<"undefined">>   \* the JavaScript value undefined

GET == <<"G", "E", "T">>
oauth_consumer_key == <<"o", "a", "u", "t", "h", "_", "c", "o", "n", "s", "u", "m", "e", "r", "_", "k", "e", "y">>
oauth_token == <<"o", "a", "u", "t", "h", "_", "t", "o", "k", "e", "n">>
oauth_signature_method == <<"o", "a", "u", "t", "h", "_", "s", "i", "g", "n", "a", "t", "u", "r", "e", "_", "m", "e", "t", "h", "o", "d">>
oauth_timestamp == <<"o", "a", "u", "t", "h", "_", "t", "i", "m", "e", "s", "t", "a", "m", "p">>
oauth_nonce == <<"o", "a", "u", "t", "h", "_", "n", "o", "n", "c", "e">>
oauth_version == <<"o", "a", "u", "t", "h", "_", "v", "e", "r", "s", "i", "o", "n">>
oauth_signature == <<"o", "a", "u", "t", "h", "_", "s", "i", "g", "n", "a", "t", "u", "r", "e">>
HMAC_SHA1 == <<"H", "M", "A", "C", "-", "S", "H", "A", "1">>
OAuthVersion == <<"1", ".", "0">>
OAuthPrefix == <<"O", "A", "u", "t", "h", " ">>

(***************************************************************************)
(* State                                                                   *)
(***************************************************************************)
VARIABLES
  X_API_KEY,              \* module-level constants read from process.env
  X_API_SECRET,
  X_ACCESS_TOKEN,
  X_ACCESS_TOKEN_SECRET,
  X_USERNAME,
  MAX_BOOKMARKS,
  DEBUG,
  call,                   \* the last invocation of createOAuthHeader made directly
  env,                    \* process.env, after dotenv's config()
  pc,                     \* where the script is: "load", "awaitUser", "awaitLikes", "exited"
  exitStatus,             \* "running", "exit0" (main returned) or "exit1" (process.exit(1))
  signerCalls,            \* the invocations of createOAuthHeader made by the script, in order
  requests,               \* the HTTP requests issued with fetch, in order
  responses,              \* the HTTP responses received, in order
  userId,                 \* main's userId: what getUserIdFromUsername returned
  likesData,              \* what fetchXLikedTweets returned
  dirs,                   \* the directories that exist
  postsTs,                \* src/data/posts.ts
  writes,                 \* the files written with writeFileSync, in order: path and content
  console,                \* what console.log and console.error printed, call by call
  atStart,                \* what the run found: directories, posts.ts, the run before it
  tasks,                  \* the invocations of createOAuthHeader in flight: their locals
  app,                    \* the display app: its React state and the requests it issued
  slugCall,               \* an invocation of generateSlug: its argument and what it returned
  helper                  \* the OAuth 2.0 token helper of OAUTH_SETUP.md: its constants, server and requests

(***************************************************************************)
(* generateOAuthSignature                                                  *)
(***************************************************************************)
\* The parameters joined in insertion order, the keys not sorted.
SortedParams_unsorted(params) ==
  LET keys == ObjectKeys(params)
  IN  Join([i \in DOMAIN keys |->
              encodeURIComponent(keys[i]) \o <<"=">> \o encodeURIComponent(Get(params, keys[i]))],
           <<"&">>)

\* Object.keys(params).sort().map(key => `${enc(key)}=${enc(params[key])}`).join('&')
SortedParams(params) ==
  LET keys == Sort(ObjectKeys(params))
  IN  Join([i \in DOMAIN keys |->
              encodeURIComponent(keys[i]) \o <<"=">> \o encodeURIComponent(Get(params, keys[i]))],
           <<"&">>)

SignatureBaseString(method, url, params) ==
  method \o <<"&">> \o encodeURIComponent(url) \o <<"&">>
         \o encodeURIComponent(SortedParams(params))

\* The two secrets in the wrong order.
SigningKey_swapped(consumerSecret, tokenSecret) ==
  encodeURIComponent(tokenSecret) \o <<"&">> \o encodeURIComponent(consumerSecret)

SigningKey(consumerSecret, tokenSecret) ==
  encodeURIComponent(consumerSecret) \o <<"&">> \o encodeURIComponent(tokenSecret)

\* The locals of generateOAuthSignature when it returns; signature is the
\* value returned.
generateOAuthSignature(method, url, params, consumerSecret, tokenSecret) ==
  LET signatureBaseString == SignatureBaseString(method, url, params)
      signingKey == SigningKey(consumerSecret, tokenSecret)
  IN  [signatureBaseString |-> signatureBaseString,
       signingKey |-> signingKey,
       signature |-> HmacSha1Base64(signingKey, signatureBaseString)]

(***************************************************************************)
(* createOAuthHeader                                                       *)
(***************************************************************************)
\* Math.floor(Date.now() / 1000).toString()
Timestamp(now) == NatToString(now \div 1000)

\* Math.random().toString(36).substring(2, 15), twice; random1 and random2
\* are the two results of Math.random().toString(36).
Nonce(random1, random2) == Substring(random1, 2, 15) \o Substring(random2, 2, 15)

\* The object literal oauthParams, in the order its properties are written.
OAuthParams(now, random1, random2) ==
  << <<oauth_consumer_key, X_API_KEY>>,
     <<oauth_token, X_ACCESS_TOKEN>>,
     <<oauth_signature_method, HMAC_SHA1>>,
     <<oauth_timestamp, Timestamp(now)>>,
     <<oauth_nonce, Nonce(random1, random2)>>,
     <<oauth_version, OAuthVersion>> >>

\* const allParams = { ...oauthParams, ...queryParams }
AllParams(oauthParams, queryParams) == Spread(oauthParams, queryParams)

\* The header with the keys in insertion order, not sorted.
AuthHeader_unsorted(oauthParams) ==
  LET keys == ObjectKeys(oauthParams)
  IN  OAuthPrefix \o
      Join([i \in DOMAIN keys |->
              encodeURIComponent(keys[i]) \o <<"=", "\"">>
                \o encodeURIComponent(Get(oauthParams, keys[i])) \o <<"\"">>],
           <<",", " ">>)

\* 'OAuth ' + Object.keys(oauthParams).sort().map(key => `${enc(key)}="${enc(oauthParams[key])}"`).join(', ')
AuthHeader(oauthParams) ==
  LET keys == Sort(ObjectKeys(oauthParams))
  IN  OAuthPrefix \o
      Join([i \in DOMAIN keys |->
              encodeURIComponent(keys[i]) \o <<"=", "\"">>
                \o encodeURIComponent(Get(oauthParams, keys[i])) \o <<"\"">>],
           <<",", " ">>)

\* The locals of createOAuthHeader when it returns, for the clock value now
\* and the two random strings it read; authHeader is the value returned.
\* The function has no throw and no early return: it returns (returned is
\* TRUE) for every method, url and queryParams.
createOAuthHeader(method, url, queryParams, now, random1, random2) ==
  LET oauthParams == OAuthParams(now, random1, random2)
      allParams == AllParams(oauthParams, queryParams)
      sig == generateOAuthSignature(method, url, allParams, X_API_SECRET, X_ACCESS_TOKEN_SECRET)
      signed == Put(oauthParams, oauth_signature, sig.signature)
  IN  [method |-> method,
       url |-> url,
       queryParams |-> queryParams,
       now |-> now,
       random1 |-> random1,
       random2 |-> random2,
       allParams |-> allParams,
       signatureBaseString |-> sig.signatureBaseString,
       signingKey |-> sig.signingKey,
       signature |-> sig.signature,
       oauthParams |-> signed,
       returned |-> TRUE,
       authHeader |-> AuthHeader(signed)]

(***************************************************************************)
(* Inputs of the signer                                                    *)
(***************************************************************************)
MaxParams == 2      \* most entries of a queryParams object

POST == <<"P", "O", "S", "T">>
BREW == <<"B", "R", "E", "W">>
Methods == {GET, POST, BREW}

UserIds == {<<"4", "2">>, <<"7">>}

\* The URLs the signer is called with.
Urls == {<<"h", "t", "t", "p", "s", ":", "/", "/", "a", "p", "i", ".", "x", ".", "c", "o", "m", "/", "2", "/", "u", "s", "e", "r", "s", "/", "4", "2", "/", "l", "i", "k", "e", "d", "_", "t", "w", "e", "e", "t", "s">>}

max_results == <<"m", "a", "x", "_", "r", "e", "s", "u", "l", "t", "s">>
user_fields == <<"u", "s", "e", "r", ".", "f", "i", "e", "l", "d", "s">>

\* The entries a queryParams object is made of: two parameters of the
\* script's requests, a parameter named like an OAuth protocol parameter,
\* and a name and a value with characters that are percent-encoded.
ParamPool ==
  {<<max_results, <<"5">> >>,
   <<user_fields, <<"u", "s", "e", "r", "n", "a", "m", "e", ",", "n", "a", "m", "e">>>>,
   <<oauth_nonce, <<"a", "b", "c">>>>,
   <<<<"q", " ", "(", "x", ")">>, <<"a", ",", "b", " ", "c", "!">>>>}

\* The objects of at most n entries of ParamPool, in every insertion order.
RECURSIVE ObjectsUpTo(_)
ObjectsUpTo(n) ==
  IF n = 0 THEN {<<>>}
  ELSE LET smaller == ObjectsUpTo(n - 1)
           longest == {q \in smaller : Len(q) = n - 1}
       IN  smaller \cup
           {Append(x[1], x[2]) : x \in {y \in longest \X ParamPool : ~HasKey(y[1], y[2][1])}}

QueryParamObjects == ObjectsUpTo(MaxParams)

\* The four credentials, non-empty as the check at module load leaves them.
CredentialSets ==
  {[key |-> <<"c", "k">>, secret |-> <<"c", "s">>, token |-> <<"4", "2", "-", "t", "o", "k">>, tokenSecret |-> <<"t", "s">>],
   [key |-> <<"k", " ", "\"", ",", "/", "+">>, secret |-> <<"s", "&", "=">>, token |-> <<"7", "-", "a", "%", "4", "1", "~", "!">>, tokenSecret |-> <<"p", "'", "(", "*", ")">>]}

\* Values of Date.now(), in milliseconds.
ClockValues == {999, 1700000999}

\* Values of Math.random().toString(36).
RandomStrings == {<<"0", ".", "i">>, <<"0", ".", "4", "f", "z", "y", "o", "8", "2", "m", "v", "y", "r">>}

\* No invocation yet.
NoCall == [returned |-> FALSE]

moduleVars == <<X_API_KEY, X_API_SECRET, X_ACCESS_TOKEN, X_ACCESS_TOKEN_SECRET, X_USERNAME, MAX_BOOKMARKS, DEBUG>>
runVars == <<env, pc, exitStatus, signerCalls, requests, responses, userId, likesData, dirs, postsTs, writes, console, atStart>>
vars == <<moduleVars, call, runVars, tasks, app, slugCall, helper>>

(***************************************************************************)
(* The script: module load                                                 *)
(***************************************************************************)
DefaultUsername == <<"g", "a", "u", "r", "i", "_", "_", "g", "u", "p", "t", "a">>
DefaultMaxBookmarks == <<"1", "0">>
NaN == -1     \* the number NaN

\* parseInt(s) for a string of decimal digits; NaN when it starts with no digit.
RECURSIVE ParseDigits(_, _, _)
ParseDigits(s, i, n) ==
  IF i > Len(s) \/ s[i] \notin Digits THEN n
  ELSE ParseDigits(s, i + 1, 10 * n + (CharCode[s[i]] - 48))

parseInt(s) == IF s = <<>> \/ s[1] \notin Digits THEN NaN ELSE ParseDigits(s, 1, 0)

\* Number.prototype.toString()
NumberToString(n) == IF n = NaN THEN <<"N", "a", "N">> ELSE NatToString(n)

\* a || b for strings: undefined and the empty string are falsy.
Truthy(v) == v # undefined /\ v # <<>>
OrElse(a, b) == IF Truthy(a) THEN a ELSE b

\* A check for undefined only: an empty credential passes.
CredentialsMissing_undefinedOnly(key, secret, token, tokenSecret) ==
  key = undefined \/ secret = undefined \/ token = undefined \/ tokenSecret = undefined

\* !X_API_KEY || !X_API_SECRET || !X_ACCESS_TOKEN || !X_ACCESS_TOKEN_SECRET
CredentialsMissing(key, secret, token, tokenSecret) ==
  ~Truthy(key) \/ ~Truthy(secret) \/ ~Truthy(token) \/ ~Truthy(tokenSecret)

\* The script's first lines, to line 62: the constants are read from
\* process.env and the credentials are checked.
LoadConstants ==
  /\ X_API_KEY' = env.X_API_KEY
  /\ X_API_SECRET' = env.X_API_SECRET
  /\ X_ACCESS_TOKEN' = env.X_ACCESS_TOKEN
  /\ X_ACCESS_TOKEN_SECRET' = env.X_ACCESS_TOKEN_SECRET
  /\ X_USERNAME' = OrElse(env.X_USERNAME, DefaultUsername)
  /\ MAX_BOOKMARKS' = parseInt(OrElse(env.MAX_BOOKMARKS, DefaultMaxBookmarks))
  /\ DEBUG' = (env.DEBUG = <<"t", "r", "u", "e">>)

(***************************************************************************)
(* The script: the two requests                                            *)
(***************************************************************************)
tweet_fields == <<"t", "w", "e", "e", "t", ".", "f", "i", "e", "l", "d", "s">>
expansions == <<"e", "x", "p", "a", "n", "s", "i", "o", "n", "s">>
media_fields == <<"m", "e", "d", "i", "a", ".", "f", "i", "e", "l", "d", "s">>

UserLookupPrefix == <<"h", "t", "t", "p", "s", ":", "/", "/", "a", "p", "i", ".", "x", ".", "c", "o", "m", "/", "2", "/", "u", "s", "e", "r", "s", "/", "b", "y", "/", "u", "s", "e", "r", "n", "a", "m", "e", "/">>
UsersPrefix == <<"h", "t", "t", "p", "s", ":", "/", "/", "a", "p", "i", ".", "x", ".", "c", "o", "m", "/", "2", "/", "u", "s", "e", "r", "s", "/">>
LikedTweetsSuffix == <<"/", "l", "i", "k", "e", "d", "_", "t", "w", "e", "e", "t", "s">>

\* The characters URLSearchParams leaves as they are when the URL is
\* written out (application/x-www-form-urlencoded): letters, digits, * - . _
FormUnescaped == AlphaNum \cup {"*", "-", ".", "_"}

FormEncodeChar(c) ==
  IF c \in FormUnescaped THEN <<c>>
  ELSE IF c = " " THEN <<"+">>
  ELSE <<"%", HexDigits[(CharCode[c] \div 16) + 1], HexDigits[(CharCode[c] % 16) + 1]>>

FormEncode(s) == Concat([i \in DOMAIN s |-> FormEncodeChar(s[i])])

\* new URL(url), searchParams.append(key, value) for every entry, toString()
FullUrl(url, queryParams) ==
  url \o <<"?">> \o
  Join([i \in DOMAIN queryParams |->
          FormEncode(queryParams[i][1]) \o <<"=">> \o FormEncode(queryParams[i][2])],
       <<"&">>)

Request_post(url, queryParams, authHeader) ==
  [method |-> POST, url |-> FullUrl(url, queryParams), Authorization |-> authHeader]

Request_noQuery(url, queryParams, authHeader) ==
  [method |-> GET, url |-> url, Authorization |-> authHeader]

\* fetch(fullUrl.toString(), { method: 'GET', headers: { Authorization: authHeader, ... } })
Request(url, queryParams, authHeader) ==
  [method |-> GET, url |-> FullUrl(url, queryParams), Authorization |-> authHeader]

\* getUserIdFromUsername, to its fetch.
UserLookupUrlOf(username) == UserLookupPrefix \o username
UserLookupParams == << <<user_fields, <<"i", "d">>>> >>
\* fullUrl.searchParams.append('user.fields', 'id'), written out a second time
UserLookupAppended == << <<user_fields, <<"i", "d">>>> >>

\* What the clock and the two Math.random() calls give one invocation in a
\* run: <<now, random1, random2>>.
RunDraws ==
  {<<999, <<"0", ".", "i">>, <<"0", ".", "4", "f", "z", "y", "o", "8", "2", "m", "v", "y", "r">>>>,
   <<1700000999, <<"0", ".", "4", "f", "z", "y", "o", "8", "2", "m", "v", "y", "r">>, <<"0", ".", "i">>>>}

\* fetchXLikedTweets, to its fetch.
LikedTweetsUrlOf_me(id) == UsersPrefix \o <<"m", "e">> \o LikedTweetsSuffix

LikedTweetsUrlOf(id) == UsersPrefix \o id \o LikedTweetsSuffix
LikedTweetsParams(maxResults) ==
  << <<max_results, NumberToString(maxResults)>>,
     <<tweet_fields, <<"c", "r", "e", "a", "t", "e", "d", "_", "a", "t", ",", "a", "u", "t", "h", "o", "r", "_", "i", "d", ",", "p", "u", "b", "l", "i", "c", "_", "m", "e", "t", "r", "i", "c", "s", ",", "t", "e", "x", "t", ",", "a", "t", "t", "a", "c", "h", "m", "e", "n", "t", "s">>>>,
     <<user_fields, <<"u", "s", "e", "r", "n", "a", "m", "e", ",", "n", "a", "m", "e">>>>,
     <<expansions, <<"a", "u", "t", "h", "o", "r", "_", "i", "d", ",", "a", "t", "t", "a", "c", "h", "m", "e", "n", "t", "s", ".", "m", "e", "d", "i", "a", "_", "k", "e", "y", "s">>>>,
     <<media_fields, <<"u", "r", "l", ",", "p", "r", "e", "v", "i", "e", "w", "_", "i", "m", "a", "g", "e", "_", "u", "r", "l", ",", "t", "y", "p", "e">>>> >>

(***************************************************************************)
(* The script: the liked tweets                                            *)
(***************************************************************************)
MaxTweets == 2      \* most tweets of a response

\* A tweet of the response: the fields the script reads, and the three that
\* fetchXLikedTweets adds.
Tweet(id, author, text, created_at, public_metrics) ==
  [id |-> id, author_id |-> author, text |-> text, created_at |-> created_at,
   public_metrics |-> public_metrics,
   author_username |-> undefined, author_name |-> undefined, url |-> undefined]

\* bookmark.public_metrics: there with its three counts, or not there.
NoMetrics == [present |-> FALSE, like_count |-> 0, retweet_count |-> 0, reply_count |-> 0]
Metrics(likes, retweets, replies) ==
  [present |-> TRUE, like_count |-> likes, retweet_count |-> retweets, reply_count |-> replies]

RawTweets ==
  {Tweet(<<"1">>, <<"a", "1">>, <<"D", "o", "n", "'", "t", " ", "p", "a", "n", "i", "c", "\n", "s", "e", "e", " ", "h", "t", "t", "p", "s", ":", "/", "/", "t", ".", "c", "o", "/", "x">>, <<"2", "0", "2", "4", "-", "0", "3", "-", "0", "5", "T", "1", "0", ":", "0", "0", ":", "0", "0", ".", "0", "0", "0", "Z">>, Metrics(3, 0, 1)),
   Tweet(<<"2">>, <<"a", "2">>, <<"O", "n", "l", "y", " ", "$", "1", "5", " ", "t", "o", "d", "a", "y">>, <<"2", "0", "2", "5", "-", "1", "1", "-", "3", "0", "T", "0", "8", ":", "3", "0", ":", "0", "0", ".", "0", "0", "0", "Z">>, NoMetrics)}

UserA == [id |-> <<"a", "1">>, username |-> <<"a", "l", "i", "c", "e">>, name |-> <<"A", "l", "i", "c", "e", " ", "A">>]
UserB == [id |-> <<"a", "2">>, username |-> <<"b", "o", "b">>, name |-> <<"B", "o", "b", "'", "s">>]

RECURSIVE TweetLists(_)
TweetLists(n) ==
  IF n = 0 THEN {<<>>}
  ELSE LET smaller == TweetLists(n - 1)
       IN  smaller \cup {Append(l, t) : l \in {m \in smaller : Len(m) = n - 1}, t \in RawTweets}

\* The bodies of an OK response of the liked-tweets endpoint: data and
\* includes.users, each there or not.
LikesBodies ==
  {[hasData |-> d[1], data |-> d[2], hasUsers |-> u[1], users |-> u[2]] :
     d \in ({FALSE} \X {<<>>}) \cup ({TRUE} \X TweetLists(MaxTweets)),
     u \in {<<FALSE, <<>> >>, <<TRUE, <<>> >>, <<TRUE, <<UserA>> >>, <<TRUE, <<UserA, UserB>> >>}}

XPrefix == <<"h", "t", "t", "p", "s", ":", "/", "/", "x", ".", "c", "o", "m", "/">>
StatusInfix == <<"/", "s", "t", "a", "t", "u", "s", "/">>
UndefinedText == <<"u", "n", "d", "e", "f", "i", "n", "e", "d">>

\* `${v}` for a string or undefined.
Interpolate(v) == IF v = undefined THEN UndefinedText ELSE v

\* userMap.get(id): the last of the users with this id decides.
HasUser(users, id) == \E i \in DOMAIN users : users[i].id = id
UserOf(users, id) ==
  users[CHOOSE i \in DOMAIN users :
          /\ users[i].id = id
          /\ \A j \in DOMAIN users : users[j].id = id => j <= i]

\* The object the map at lines 229-234 makes of a tweet.
Enriched(tweet, users) ==
  LET username == IF HasUser(users, tweet.author_id) THEN UserOf(users, tweet.author_id).username ELSE undefined
      name == IF HasUser(users, tweet.author_id) THEN UserOf(users, tweet.author_id).name ELSE undefined
  IN  [tweet EXCEPT !.author_username = username,
                    !.author_name = name,
                    !.url = XPrefix \o Interpolate(username) \o StatusInfix \o tweet.id]

\* data.data.map(...) throws when includes.users is there and data is not.
EnrichThrows(body) == body.hasUsers /\ ~body.hasData

\* What fetchXLikedTweets returns for the body of an OK response.
EnrichedData(body) ==
  IF body.hasUsers
  THEN [hasData |-> TRUE, data |-> [i \in DOMAIN body.data |-> Enriched(body.data[i], body.users)]]
  ELSE [hasData |-> body.hasData, data |-> body.data]

MonthNames ==
  <<<<"J", "a", "n", "u", "a", "r", "y">>, <<"F", "e", "b", "r", "u", "a", "r", "y">>, <<"M", "a", "r", "c", "h">>, <<"A", "p", "r", "i", "l">>, <<"M", "a", "y">>, <<"J", "u", "n", "e">>,
    <<"J", "u", "l", "y">>, <<"A", "u", "g", "u", "s", "t">>, <<"S", "e", "p", "t", "e", "m", "b", "e", "r">>, <<"O", "c", "t", "o", "b", "e", "r">>, <<"N", "o", "v", "e", "m", "b", "e", "r">>, <<"D", "e", "c", "e", "m", "b", "e", "r">>>>

\* The month, day and year of new Date(created_at) for an ISO 8601 time,
\* in the time zone of the time itself.
MonthOf(created_at) == MonthNames[parseInt(Substring(created_at, 5, 7))]
DayOf(created_at) == NumberToString(parseInt(Substring(created_at, 8, 10)))
YearOf(created_at) == NumberToString(parseInt(Substring(created_at, 0, 4)))

\* date.toLocaleDateString('en-US', { month: 'long', day: 'numeric', year: 'numeric' })
FormattedDate(created_at) ==
  Concat(<<MonthOf(created_at), <<" ">>, DayOf(created_at), <<",", " ">>, YearOf(created_at)>>)

\* date.toLocaleDateString('en-US', { month: 'long', year: 'numeric' })
MonthYear(created_at) == Concat(<<MonthOf(created_at), <<" ">>, YearOf(created_at)>>)

\* /(https?:\/\/[^\s]+)/ matches at i.
UrlAt(s, i) ==
  \/ StartsAt(s, i, <<"h", "t", "t", "p", ":", "/", "/">>) /\ i + 7 <= Len(s) /\ s[i + 7] \notin Whitespace
  \/ StartsAt(s, i, <<"h", "t", "t", "p", "s", ":", "/", "/">>) /\ i + 8 <= Len(s) /\ s[i + 8] \notin Whitespace

\* No white space from i to j.
SameWord(s, i, j) == \A k \in i..j : s[k] \notin Whitespace

\* The matches of the global regular expression: a match runs to the next
\* white space, and the next match is looked for behind it.
UrlMatchAt(s, i) == UrlAt(s, i) /\ ~\E j \in 1..(i - 1) : UrlAt(s, j) /\ SameWord(s, j, i)
InUrlMatch(s, i) == \E j \in 1..i : UrlAt(s, j) /\ SameWord(s, j, i)
UrlFrom(s, i) ==
  SubSeq(s, i, CHOOSE e \in i..Len(s) :
                 SameWord(s, i, e) /\ (e = Len(s) \/ s[e + 1] \in Whitespace))

\* text.replace(urlRegex, '[$1]($1)')
LinkUrls(s) ==
  Concat([i \in DOMAIN s |->
            IF UrlMatchAt(s, i)
            THEN Concat(<<<<"[">>, UrlFrom(s, i), <<"]", "(">>, UrlFrom(s, i), <<")">>>>)
            ELSE IF InUrlMatch(s, i) THEN <<>>
            ELSE <<s[i]>>])

\* bookmark.public_metrics?.like_count || 0, and the like, in a template.
Count(public_metrics, n) == NumberToString(IF public_metrics.present THEN n ELSE 0)

likedTweetToMarkdown(bookmark) ==
  LET formattedDate == FormattedDate(bookmark.created_at)
      username == OrElse(bookmark.author_username, <<"u", "n", "k", "n", "o", "w", "n">>)
      text == LinkUrls(Trim(bookmark.text))
  IN  Concat(<<<<"#", " ">>, Substring(FirstLine(text), 0, 100),
               <<"\n", "\n", "*", "*", "O", "r", "i", "g", "i", "n", "a", "l", "l", "y", " ", "p", "o", "s", "t", "e", "d", " ", "b", "y", " ", "[", "@">>, username, <<"]", "(", "h", "t", "t", "p", "s", ":", "/", "/", "x", ".", "c", "o", "m", "/">>, username, <<")", "*", "*", " ", "o", "n", " ">>,
               formattedDate,
               <<"\n", "\n", "[", "V", "i", "e", "w", " ", "o", "r", "i", "g", "i", "n", "a", "l", " ", "t", "w", "e", "e", "t", "]", "(">>, Interpolate(bookmark.url),
               <<")", "\n", "\n", "-", "-", "-", "\n", "\n">>, text,
               <<"\n", "\n", "-", "-", "-", "\n", "\n", "#", "#", " ", "M", "e", "t", "r", "i", "c", "s", "\n", "\n", "-", " ", "U+D83D", "U+DC4D", " ", "L", "i", "k", "e", "s", ":", " ">>,
               Count(bookmark.public_metrics, bookmark.public_metrics.like_count),
               <<"\n", "-", " ", "U+D83D", "U+DD04", " ", "R", "e", "t", "w", "e", "e", "t", "s", ":", " ">>,
               Count(bookmark.public_metrics, bookmark.public_metrics.retweet_count),
               <<"\n", "-", " ", "U+D83D", "U+DCAC", " ", "R", "e", "p", "l", "i", "e", "s", ":", " ">>,
               Count(bookmark.public_metrics, bookmark.public_metrics.reply_count),
               <<"\n">>>>)

(***************************************************************************)
(* The script: posts.ts as text                                            *)
(***************************************************************************)
\* __dirname is <repository>/scripts; the paths join(__dirname, '..', ...) gives.
RepoDir == <<"/", "r", "e", "p", "o">>
PostsDir == RepoDir \o <<"/", "s", "r", "c", "/", "p", "a", "g", "e", "s", "/", "p", "o", "s", "t", "s">>
PublicBlogsDir == RepoDir \o <<"/", "p", "u", "b", "l", "i", "c", "/", "b", "l", "o", "g", "s">>
DataDir == RepoDir \o <<"/", "s", "r", "c", "/", "d", "a", "t", "a">>
PostsDataPath == DataDir \o <<"/", "p", "o", "s", "t", "s", ".", "t", "s">>

SlugPrefix == <<"x", "-", "l", "i", "k", "e", "d", "-">>
MdSuffix == <<".", "m", "d">>
SlugOf(tweet) == SlugPrefix \o tweet.id
MdPath(slug) == Concat(<<PostsDir, <<"/">>, slug, MdSuffix>>)

\* The text main starts from when posts.ts does not exist.
DefaultPostsContent == <<"c", "o", "n", "s", "t", " ", "p", "o", "s", "t", "s", " ", "=", " ", "[", "]", ";", "\n", "\n", "e", "x", "p", "o", "r", "t", " ", "{", " ", "p", "o", "s", "t", "s", " ", "}", ";", "\n", "e", "x", "p", "o", "r", "t", " ", "d", "e", "f", "a", "u", "l", "t", " ", "p", "o", "s", "t", "s", ";", "\n">>

\* -- /id: ['"]([^'"]+)['"]/g --------------------------------------------
Quotes == {"'", "\""}

IdMatchAt(s, i) ==
  /\ StartsAt(s, i, <<"i", "d", ":", " ">>)
  /\ i + 5 <= Len(s)
  /\ s[i + 4] \in Quotes
  /\ s[i + 5] \notin Quotes
  /\ \E e \in (i + 6)..Len(s) : s[e] \in Quotes

\* Where the match that starts at i ends, and its group 1.
IdMatchEnd(s, i) == Min({e \in (i + 6)..Len(s) : s[e] \in Quotes})
IdGroup(s, i) == SubSeq(s, i + 5, IdMatchEnd(s, i) - 1)

\* matchAll: the matches from left to right, each looked for behind the last.
RECURSIVE IdMatchesFrom(_, _)
IdMatchesFrom(s, from) ==
  LET starts == {i \in from..Len(s) : IdMatchAt(s, i)}
  IN  IF starts = {} THEN {}
      ELSE {IdGroup(s, Min(starts))} \cup IdMatchesFrom(s, IdMatchEnd(s, Min(starts)) + 1)

\* existingPosts: the ids found in posts.ts, none when it does not exist.
ExistingPosts(file) == IF file.exists THEN IdMatchesFrom(file.content, 1) ELSE {}

\* The tweets the loop at lines 373-416 does not skip, in order.
FreshTweets(data, existingPosts) ==
  SelectSeq(data, LAMBDA t : SlugOf(t) \notin existingPosts)

\* -- the entries of newPosts ----------------------------------------------
Categories == <<<<"X", " ", "L", "i", "k", "e", "d">>, <<"C", "u", "r", "a", "t", "e", "d">>>>

Excerpt(text) ==
  Trim(Substring(text, 0, 200)) \o (IF Len(text) > 200 THEN <<".", ".", ".">> ELSE <<>>)

NewPost(bookmark) ==
  [id |-> SlugOf(bookmark),
   title |-> Substring(FirstLine(bookmark.text), 0, 100),
   date |-> MonthYear(bookmark.created_at),
   author |-> OrElse(bookmark.author_name, OrElse(bookmark.author_username, <<"U", "n", "k", "n", "o", "w", "n">>)),
   categories |-> Categories,
   excerpt |-> Excerpt(bookmark.text)]

\* post.id.replace(/-/g, '_') followed by Md
MdIdentifier(id) == ReplaceChar(id, "-", <<"_">>) \o <<"M", "d">>

NewImports(newPosts) ==
  Join([i \in DOMAIN newPosts |->
          Concat(<<<<"i", "m", "p", "o", "r", "t", " ">>, MdIdentifier(newPosts[i].id), <<" ", "f", "r", "o", "m", " ", "'", ".", ".", "/", "p", "a", "g", "e", "s", "/", "p", "o", "s", "t", "s", "/">>,
                   newPosts[i].id, <<".", "m", "d", "?", "r", "a", "w", "'", ";">>>>)],
       <<"\n">>)

\* s.replace(/'/g, "\\'")
EscapeQuotes(s) == ReplaceChar(s, "'", <<"\\", "'">>)

\* JSON.stringify of a string and of an array of strings
JsonString(s) ==
  Concat(<<<<"\"">>, Concat([i \in DOMAIN s |-> IF s[i] \in {"\"", "\\"} THEN <<"\\", s[i]>>
                                          ELSE IF s[i] = "\n" THEN <<"\\", "n">>
                                          ELSE <<s[i]>>]), <<"\"">>>>)
JsonStringArray(a) == Concat(<<<<"[">>, Join([i \in DOMAIN a |-> JsonString(a[i])], <<",">>), <<"]">>>>)

NewPostObject(post) ==
  Concat(<<<<" ", " ", "{", "\n", " ", " ", " ", " ", "i", "d", ":", " ", "'">>, post.id,
           <<"'", ",", "\n", " ", " ", " ", " ", "t", "i", "t", "l", "e", ":", " ", "'">>, EscapeQuotes(post.title),
           <<"'", ",", "\n", " ", " ", " ", " ", "d", "a", "t", "e", ":", " ", "'">>, post.date,
           <<"'", ",", "\n", " ", " ", " ", " ", "a", "u", "t", "h", "o", "r", ":", " ", "'">>, EscapeQuotes(post.author),
           <<"'", ",", "\n", " ", " ", " ", " ", "c", "a", "t", "e", "g", "o", "r", "i", "e", "s", ":", " ">>, JsonStringArray(post.categories),
           <<",", "\n", " ", " ", " ", " ", "e", "x", "c", "e", "r", "p", "t", ":", " ", "'">>, EscapeQuotes(post.excerpt),
           <<"'", ",", "\n", " ", " ", " ", " ", "c", "o", "n", "t", "e", "n", "t", ":", " ">>, MdIdentifier(post.id),
           <<",", "\n", " ", " ", "}">>>>)

NewPostObjects(newPosts) ==
  Join([i \in DOMAIN newPosts |-> NewPostObject(newPosts[i])], <<",", "\n">>)

\* -- /^(import[^;]+;?\n)*/ ------------------------------------------------
\* The last place of the longest stretch without ';' that starts at a
\* (a - 1 when there is none).
RunEnd(s, a) ==
  LET semicolons == {q \in a..Len(s) : s[q] = ";"}
  IN  IF semicolons = {} THEN Len(s) ELSE Min(semicolons) - 1

\* Where one import[^;]+;?\n that starts at p ends, 0 if none does: the
\* stretch is taken as long as it can be, then shortened until ;?\n follows.
ImportEnd(s, p) ==
  IF ~StartsAt(s, p, <<"i", "m", "p", "o", "r", "t">>) THEN 0
  ELSE LET a == p + 6
           r == RunEnd(s, a)
           newlines == {q \in (a + 1)..r : s[q] = "\n"}
       IN  IF r < a THEN 0
           ELSE IF r + 2 <= Len(s) /\ s[r + 1] = ";" /\ s[r + 2] = "\n" THEN r + 2
           ELSE IF newlines = {} THEN 0
           ELSE CHOOSE q \in newlines : \A x \in newlines : x <= q

RECURSIVE ImportsEnd(_, _)
ImportsEnd(s, p) == IF ImportEnd(s, p) = 0 THEN p - 1 ELSE ImportsEnd(s, ImportEnd(s, p) + 1)

\* importMatch[0], and postsContent.substring(existingImports.length)
ExistingImports(postsContent) == SubSeq(postsContent, 1, ImportsEnd(postsContent, 1))
RestOfContent(postsContent) ==
  SubSeq(postsContent, ImportsEnd(postsContent, 1) + 1, Len(postsContent))

\* -- /const posts = \[([\s\S]*?)\];/ ---------------------------------------
ArrayOpen == <<"c", "o", "n", "s", "t", " ", "p", "o", "s", "t", "s", " ", "=", " ", "[">>
ArrayClose == <<"]", ";">>

\* The match: whether there is one, where it starts and ends, and group 1.
ArrayMatch(s) ==
  LET start == IndexOf(s, ArrayOpen, 1)
      close == IF start = 0 THEN 0 ELSE IndexOf(s, ArrayClose, start + Len(ArrayOpen))
  IN  IF start = 0 \/ close = 0
      THEN [found |-> FALSE, first |-> 0, last |-> 0, group1 |-> <<>>]
      ELSE [found |-> TRUE, first |-> start, last |-> close + 1,
            group1 |-> SubSeq(s, start + Len(ArrayOpen), close - 1)]

\* -- String.prototype.replace with a replacement string --------------------
\* How many '$' stand directly before place i.
DollarsBefore(r, i) == Cardinality({k \in 1..(i - 1) : \A j \in k..(i - 1) : r[j] = "$"})

\* The '$' at i starts a replacement pattern or stands for itself (it is
\* not the second half of a '$$').
LeadingDollar(r, i) == i >= 1 /\ i <= Len(r) /\ r[i] = "$" /\ DollarsBefore(r, i) % 2 = 0

CharAt(r, i) == IF i >= 1 /\ i <= Len(r) THEN r[i] ELSE "none"

\* What the character at i of the replacement r contributes, for a regular
\* expression with one group: $$ is '$', $& the match, $GRAVE what is before
\* it, $' what is behind it, $1 and $01 group 1; every other '$' stays.
Substitute(r, i, matched, group1, before, after) ==
  IF r[i] = "$"
  THEN IF ~LeadingDollar(r, i) THEN <<>>
       ELSE IF CharAt(r, i + 1) = "$" THEN <<"$">>
       ELSE IF CharAt(r, i + 1) = "&" THEN matched
       ELSE IF CharAt(r, i + 1) = "GRAVE" THEN before
       ELSE IF CharAt(r, i + 1) = "'" THEN after
       ELSE IF CharAt(r, i + 1) = "1" THEN group1
       ELSE IF CharAt(r, i + 1) = "0" /\ CharAt(r, i + 2) = "1" THEN group1
       ELSE <<"$">>
  ELSE IF LeadingDollar(r, i - 1) /\ r[i] \in {"&", "GRAVE", "'", "1"} THEN <<>>
  ELSE IF LeadingDollar(r, i - 1) /\ r[i] = "0" /\ CharAt(r, i + 1) = "1" THEN <<>>
  ELSE IF LeadingDollar(r, i - 2) /\ r[i - 1] = "0" /\ r[i] = "1" THEN <<>>
  ELSE <<r[i]>>

\* s.replace(regexp, replacement) for the match m of the regular expression.
ReplaceMatch(s, m, replacement) ==
  LET before == SubSeq(s, 1, m.first - 1)
      matched == SubSeq(s, m.first, m.last)
      after == SubSeq(s, m.last + 1, Len(s))
  IN  Concat(<<before,
               Concat([i \in DOMAIN replacement |->
                         Substitute(replacement, i, matched, m.group1, before, after)]),
               after>>)

\* -- lines 456-472 ---------------------------------------------------------
UpdatedPosts(existingPostsStr, newPostObjects) ==
  IF existingPostsStr # <<>>
  THEN Concat(<<existingPostsStr, <<",", "\n">>, newPostObjects>>)
  ELSE newPostObjects

\* newContent, for a postsContent in which the array is found.
NewContent(postsContent, newPosts) ==
  LET restOfContent == RestOfContent(postsContent)
      arrayMatch == ArrayMatch(restOfContent)
      updatedPosts == UpdatedPosts(Trim(arrayMatch.group1), NewPostObjects(newPosts))
  IN  Concat(<<ExistingImports(postsContent), NewImports(newPosts), <<"\n", "\n">>,
               ReplaceMatch(restOfContent, arrayMatch,
                            Concat(<<<<"c", "o", "n", "s", "t", " ", "p", "o", "s", "t", "s", " ", "=", " ", "[", "\n">>, updatedPosts, <<"\n", "]", ";">>>>))>>)

(***************************************************************************)
(* The script: what it writes to the console                               *)
(***************************************************************************)
\* Each console.log or console.error call is one entry of the console: the
\* text it prints.  Arguments are printed with one space between them; a
\* character outside ASCII is written as its UTF-16 code units ("U+2550").

\* String(value) of a boolean
BooleanToString(b) == IF b THEN <<"t", "r", "u", "e">> ELSE <<"f", "a", "l", "s", "e">>

\* An Error: its name, its message and the place of the throw as its stack
\* trace gives it.
Error(name, message, at) == [name |-> name, message |-> message, at |-> at]

\* error.stack
Stack(error) == Concat(<<error.name, <<":", " ">>, error.message, <<"\n", " ", " ", " ", " ", "a", "t", " ">>, error.at>>)

ScriptUrl == Concat(<<<<"f", "i", "l", "e", ":", "/", "/">>, RepoDir, <<"/", "s", "c", "r", "i", "p", "t", "s", "/", "f", "e", "t", "c", "h", "-", "x", "-", "b", "o", "o", "k", "m", "a", "r", "k", "s", ".", "m", "j", "s">>>>)

\* -- the responses fetch resolves with -------------------------------------
\* A response with an OK status and a JSON body.
OkResponse(body) == [ok |-> TRUE, status |-> 200, statusText |-> <<"O", "K">>, hasJson |-> TRUE, body |-> body]

\* Responses whose status is not OK: one with a JSON body, one whose body
\* is no JSON.
ErrorResponses ==
  {[ok |-> FALSE, status |-> 401, statusText |-> <<"U", "n", "a", "u", "t", "h", "o", "r", "i", "z", "e", "d">>, hasJson |-> TRUE,
    body |-> << <<<<"t", "i", "t", "l", "e">>, <<"U", "n", "a", "u", "t", "h", "o", "r", "i", "z", "e", "d">>>>, <<<<"d", "e", "t", "a", "i", "l">>, <<"U", "n", "a", "u", "t", "h", "o", "r", "i", "z", "e", "d">>>> >>],
   [ok |-> FALSE, status |-> 429, statusText |-> <<"T", "o", "o", " ", "M", "a", "n", "y", " ", "R", "e", "q", "u", "e", "s", "t", "s">>, hasJson |-> FALSE,
    body |-> <<>>]}

\* await response.json().catch(() => ({ error: 'Unknown error' }))
ErrorOf(response) ==
  IF response.hasJson THEN response.body ELSE << <<<<"e", "r", "r", "o", "r">>, <<"U", "n", "k", "n", "o", "w", "n", " ", "e", "r", "r", "o", "r">>>> >>

\* JSON.stringify(error) and JSON.stringify(error, null, 2) of an object
\* whose values are strings.
JsonCompact(o) ==
  IF o = <<>> THEN <<"{", "}">>
  ELSE Concat(<<<<"{">>, Join([i \in DOMAIN o |-> Concat(<<JsonString(o[i][1]), <<":">>, JsonString(o[i][2])>>)], <<",">>), <<"}">>>>)
JsonIndented(o) ==
  IF o = <<>> THEN <<"{", "}">>
  ELSE Concat(<<<<"{", "\n">>,
                Join([i \in DOMAIN o |-> Concat(<<<<" ", " ">>, JsonString(o[i][1]), <<":", " ">>, JsonString(o[i][2])>>)], <<",", "\n">>),
                <<"\n", "}">>>>)

\* lines 39-49, for the constants just read
\* A configuration log that prints the consumer key itself.
DebugConfigLog_values(username, maxBookmarks, key, secret, token, tokenSecret) ==
  <<Concat(<<<<" ", " ", "X", "_", "A", "P", "I", "_", "K", "E", "Y", ":", " ">>, Interpolate(key)>>)>>

DebugConfigLog(username, maxBookmarks, key, secret, token, tokenSecret) ==
  <<<<"\n", "U+D83D", "U+DD0D", " ", "D", "E", "B", "U", "G", " ", "M", "O", "D", "E", " ", "E", "N", "A", "B", "L", "E", "D">>,
    <<"U+2550", "U+2550", "U+2550", "U+2550", "U+2550", "U+2550", "U+2550", "U+2550", "U+2550", "U+2550", "U+2550", "U+2550", "U+2550", "U+2550", "U+2550", "U+2550", "U+2550", "U+2550", "U+2550", "U+2550", "U+2550", "U+2550", "U+2550", "U+2550", "U+2550", "U+2550", "U+2550", "U+2550", "U+2550", "U+2550", "U+2550", "U+2550", "U+2550", "U+2550", "U+2550", "U+2550", "U+2550", "U+2550", "U+2550">>,
    <<"E", "n", "v", "i", "r", "o", "n", "m", "e", "n", "t", " ", "C", "o", "n", "f", "i", "g", "u", "r", "a", "t", "i", "o", "n", ":">>,
    Concat(<<<<" ", " ", "X", "_", "U", "S", "E", "R", "N", "A", "M", "E", ":", " ">>, username>>),
    Concat(<<<<" ", " ", "M", "A", "X", "_", "B", "O", "O", "K", "M", "A", "R", "K", "S", ":", " ">>, NumberToString(maxBookmarks)>>),
    Concat(<<<<" ", " ", "X", "_", "A", "P", "I", "_", "K", "E", "Y", ":", " ">>, IF Truthy(key) THEN Concat(<<<<"S", "e", "t", " ", "(">>, NatToString(Len(key)), <<" ", "c", "h", "a", "r", "s", ")">>>>) ELSE <<"N", "O", "T", " ", "S", "E", "T">>>>),
    Concat(<<<<" ", " ", "X", "_", "A", "P", "I", "_", "S", "E", "C", "R", "E", "T", ":", " ">>, IF Truthy(secret) THEN <<"S", "e", "t">> ELSE <<"N", "O", "T", " ", "S", "E", "T">>>>),
    Concat(<<<<" ", " ", "X", "_", "A", "C", "C", "E", "S", "S", "_", "T", "O", "K", "E", "N", ":", " ">>, IF Truthy(token) THEN Concat(<<<<"S", "e", "t", " ", "(">>, NatToString(Len(token)), <<" ", "c", "h", "a", "r", "s", ")">>>>) ELSE <<"N", "O", "T", " ", "S", "E", "T">>>>),
    Concat(<<<<" ", " ", "X", "_", "A", "C", "C", "E", "S", "S", "_", "T", "O", "K", "E", "N", "_", "S", "E", "C", "R", "E", "T", ":", " ">>, IF Truthy(tokenSecret) THEN <<"S", "e", "t">> ELSE <<"N", "O", "T", " ", "S", "E", "T">>>>),
    Concat(<<<<" ", " ", "W", "o", "r", "k", "i", "n", "g", " ", "D", "i", "r", "e", "c", "t", "o", "r", "y", ":", " ">>, RepoDir>>),
    <<"U+2550", "U+2550", "U+2550", "U+2550", "U+2550", "U+2550", "U+2550", "U+2550", "U+2550", "U+2550", "U+2550", "U+2550", "U+2550", "U+2550", "U+2550", "U+2550", "U+2550", "U+2550", "U+2550", "U+2550", "U+2550", "U+2550", "U+2550", "U+2550", "U+2550", "U+2550", "U+2550", "U+2550", "U+2550", "U+2550", "U+2550", "U+2550", "U+2550", "U+2550", "U+2550", "U+2550", "U+2550", "U+2550", "U+2550", "\n">>>>

\* lines 53-60
MissingCredentialsLog ==
  <<<<"U+274C", " ", "E", "r", "r", "o", "r", ":", " ", "O", "A", "u", "t", "h", " ", "1", ".", "0", "a", " ", "c", "r", "e", "d", "e", "n", "t", "i", "a", "l", "s", " ", "n", "o", "t", " ", "s", "e", "t">>,
    <<"P", "l", "e", "a", "s", "e", " ", "s", "e", "t", " ", "t", "h", "e", " ", "f", "o", "l", "l", "o", "w", "i", "n", "g", " ", "e", "n", "v", "i", "r", "o", "n", "m", "e", "n", "t", " ", "v", "a", "r", "i", "a", "b", "l", "e", "s", ":">>,
    <<" ", " ", "-", " ", "X", "_", "A", "P", "I", "_", "K", "E", "Y", " ", "(", "C", "o", "n", "s", "u", "m", "e", "r", " ", "K", "e", "y", ")">>,
    <<" ", " ", "-", " ", "X", "_", "A", "P", "I", "_", "S", "E", "C", "R", "E", "T", " ", "(", "C", "o", "n", "s", "u", "m", "e", "r", " ", "S", "e", "c", "r", "e", "t", ")">>,
    <<" ", " ", "-", " ", "X", "_", "A", "C", "C", "E", "S", "S", "_", "T", "O", "K", "E", "N">>,
    <<" ", " ", "-", " ", "X", "_", "A", "C", "C", "E", "S", "S", "_", "T", "O", "K", "E", "N", "_", "S", "E", "C", "R", "E", "T">>,
    <<"\n", "N", "o", "t", "e", ":", " ", "B", "e", "a", "r", "e", "r", " ", "T", "o", "k", "e", "n", " ", "i", "s", " ", "N", "O", "T", " ", "s", "u", "p", "p", "o", "r", "t", "e", "d", " ", "f", "o", "r", " ", "b", "o", "o", "k", "m", "a", "r", "k", "s", " ", "e", "n", "d", "p", "o", "i", "n", "t", ".">>,
    <<"Y", "o", "u", " ", "n", "e", "e", "d", " ", "O", "A", "u", "t", "h", " ", "1", ".", "0", "a", " ", "U", "s", "e", "r", " ", "C", "o", "n", "t", "e", "x", "t", " ", "a", "u", "t", "h", "e", "n", "t", "i", "c", "a", "t", "i", "o", "n", ".">>>>

\* lines 299-301
MainBannerLog(username, maxBookmarks) ==
  <<<<"U+D83D", "U+DE80", " ", "F", "e", "t", "c", "h", "i", "n", "g", " ", "X", " ", "l", "i", "k", "e", "d", " ", "t", "w", "e", "e", "t", "s", ".", ".", ".">>,
    Concat(<<<<"U+D83D", "U+DCDD", " ", "U", "s", "e", "r", "n", "a", "m", "e", ":", " ">>, username>>),
    Concat(<<<<"U+D83D", "U+DCCA", " ", "M", "a", "x", " ", "l", "i", "k", "e", "d", " ", "t", "w", "e", "e", "t", "s", ":", " ">>, NumberToString(maxBookmarks)>>)>>

\* lines 125-126
UserLookupDebugLog(url) ==
  <<<<"\n", "U+D83D", "U+DD0D", " ", "F", "e", "t", "c", "h", "i", "n", "g", " ", "u", "s", "e", "r", " ", "I", "D", ".", ".", ".">>,
    Concat(<<<<" ", " ", "U", "R", "L", ":", " ">>, url>>)>>

\* lines 143 and 199
ResponseStatusLog(response) ==
  <<Concat(<<<<" ", " ", "R", "e", "s", "p", "o", "n", "s", "e", " ", "S", "t", "a", "t", "u", "s", ":", " ">>, NatToString(response.status), <<" ">>, response.statusText>>)>>

\* lines 148-150
UserLookupFailedLog(response) ==
  <<<<"\n", "U+274C", " ", "F", "a", "i", "l", "e", "d", " ", "t", "o", " ", "g", "e", "t", " ", "u", "s", "e", "r", " ", "I", "D">>,
    Concat(<<<<" ", " ", "S", "t", "a", "t", "u", "s", ":", " ">>, NatToString(response.status)>>),
    Concat(<<<<" ", " ", "E", "r", "r", "o", "r", ":", " ">>, JsonIndented(ErrorOf(response))>>)>>

\* line 158
UserIdDebugLog(id) ==
  <<Concat(<<<<" ", " ", "U", "s", "e", "r", " ", "I", "D", ":", " ">>, id>>)>>

\* line 305
FoundUserLog(id) ==
  <<Concat(<<<<"U+2705", " ", "F", "o", "u", "n", "d", " ", "u", "s", "e", "r", " ", "I", "D", ":", " ">>, id>>)>>

\* lines 177-180
LikedTweetsDebugLog(id, maxResults, url) ==
  <<<<"\n", "U+D83D", "U+DD0D", " ", "F", "e", "t", "c", "h", "i", "n", "g", " ", "l", "i", "k", "e", "d", " ", "t", "w", "e", "e", "t", "s", ".", ".", ".">>,
    Concat(<<<<" ", " ", "U", "s", "e", "r", " ", "I", "D", ":", " ">>, id>>),
    Concat(<<<<" ", " ", "M", "a", "x", " ", "R", "e", "s", "u", "l", "t", "s", ":", " ">>, NumberToString(maxResults)>>),
    Concat(<<<<" ", " ", "U", "R", "L", ":", " ">>, url>>)>>

\* util.inspect of the response headers, the same for every response
ResponseHeaders == <<"{", " ", "'", "c", "o", "n", "t", "e", "n", "t", "-", "t", "y", "p", "e", "'", ":", " ", "'", "a", "p", "p", "l", "i", "c", "a", "t", "i", "o", "n", "/", "j", "s", "o", "n", ";", " ", "c", "h", "a", "r", "s", "e", "t", "=", "u", "t", "f", "-", "8", "'", " ", "}">>

\* line 200
ResponseHeadersLog ==
  <<Concat(<<<<" ", " ", "R", "e", "s", "p", "o", "n", "s", "e", " ", "H", "e", "a", "d", "e", "r", "s", ":", " ">>, ResponseHeaders>>)>>

\* lines 205-207
LikedTweetsFailedLog(response) ==
  <<<<"\n", "U+274C", " ", "F", "a", "i", "l", "e", "d", " ", "t", "o", " ", "f", "e", "t", "c", "h", " ", "l", "i", "k", "e", "d", " ", "t", "w", "e", "e", "t", "s">>,
    Concat(<<<<" ", " ", "S", "t", "a", "t", "u", "s", ":", " ">>, NatToString(response.status)>>),
    Concat(<<<<" ", " ", "E", "r", "r", "o", "r", ":", " ">>, JsonIndented(ErrorOf(response))>>)>>

\* lines 216-218 (no response of the model includes media)
CountsDebugLog(body) ==
  <<Concat(<<<<" ", " ", "L", "i", "k", "e", "d", " ", "t", "w", "e", "e", "t", "s", " ", "f", "o", "u", "n", "d", ":", " ">>, NatToString(IF body.hasData THEN Len(body.data) ELSE 0)>>),
    Concat(<<<<" ", " ", "U", "s", "e", "r", "s", " ", "i", "n", "c", "l", "u", "d", "e", "d", ":", " ">>, NatToString(IF body.hasUsers THEN Len(body.users) ELSE 0)>>),
    Concat(<<<<" ", " ", "M", "e", "d", "i", "a", " ", "i", "n", "c", "l", "u", "d", "e", "d", ":", " ">>, NatToString(0)>>)>>

\* line 227
EnrichingLog ==
  <<<<" ", " ", "E", "n", "r", "i", "c", "h", "i", "n", "g", " ", "l", "i", "k", "e", "d", " ", "t", "w", "e", "e", "t", "s", " ", "w", "i", "t", "h", " ", "a", "u", "t", "h", "o", "r", " ", "d", "a", "t", "a", ".", ".", ".">>>>

\* line 314
NoLikedTweetsLog ==
  <<<<"U+2139", "U+FE0F", " ", " ", "N", "o", " ", "l", "i", "k", "e", "d", " ", "t", "w", "e", "e", "t", "s", " ", "f", "o", "u", "n", "d">>>>

\* line 318
FetchedLog(data) ==
  <<Concat(<<<<"U+2705", " ", "F", "e", "t", "c", "h", "e", "d", " ">>, NatToString(Len(data)), <<" ", "l", "i", "k", "e", "d", " ", "t", "w", "e", "e", "t", "s">>>>)>>

\* lines 321-326
TweetDetailsLog(data) ==
  <<<<"\n", "U+D83D", "U+DCCB", " ", "L", "i", "k", "e", "d", " ", "t", "w", "e", "e", "t", " ", "d", "e", "t", "a", "i", "l", "s", ":">>>> \o
  Concat([i \in DOMAIN data |->
            <<Concat(<<<<" ", " ">>, NatToString(i), <<".", " ", "I", "D", ":", " ">>, data[i].id>>),
              Concat(<<<<" ", " ", " ", " ", " ", "A", "u", "t", "h", "o", "r", ":", " ">>, Interpolate(data[i].author_name), <<" ", "(", "@">>, Interpolate(data[i].author_username), <<")">>>>),
              Concat(<<<<" ", " ", " ", " ", " ", "T", "e", "x", "t", ":", " ">>, Substring(data[i].text, 0, 50), <<".", ".", ".">>>>)>>])

\* lines 334-336
DirectoriesDebugLog ==
  <<<<"\n", "U+D83D", "U+DCC1", " ", "C", "h", "e", "c", "k", "i", "n", "g", " ", "d", "i", "r", "e", "c", "t", "o", "r", "i", "e", "s", ".", ".", ".">>,
    Concat(<<<<" ", " ", "P", "o", "s", "t", "s", " ", "d", "i", "r", "e", "c", "t", "o", "r", "y", ":", " ">>, PostsDir>>),
    Concat(<<<<" ", " ", "P", "u", "b", "l", "i", "c", " ", "b", "l", "o", "g", "s", " ", "d", "i", "r", "e", "c", "t", "o", "r", "y", ":", " ">>, PublicBlogsDir>>)>>

\* lines 340 and 344, for the directories that exist
CreatingDirectoriesLog(existing) ==
  (IF PostsDir \in existing THEN <<>> ELSE <<Concat(<<<<" ", " ", "C", "r", "e", "a", "t", "i", "n", "g", " ", "p", "o", "s", "t", "s", " ", "d", "i", "r", "e", "c", "t", "o", "r", "y", ":", " ">>, PostsDir>>)>>) \o
  (IF PublicBlogsDir \in existing THEN <<>> ELSE <<Concat(<<<<" ", " ", "C", "r", "e", "a", "t", "i", "n", "g", " ", "p", "u", "b", "l", "i", "c", " ", "b", "l", "o", "g", "s", " ", "d", "i", "r", "e", "c", "t", "o", "r", "y", ":", " ">>, PublicBlogsDir>>)>>)

\* lines 353-355
ExistingPostsDebugLog(exists) ==
  <<<<"\n", "U+D83D", "U+DD0D", " ", "C", "h", "e", "c", "k", "i", "n", "g", " ", "f", "o", "r", " ", "e", "x", "i", "s", "t", "i", "n", "g", " ", "p", "o", "s", "t", "s", ".", ".", ".">>,
    Concat(<<<<" ", " ", "P", "o", "s", "t", "s", " ", "d", "a", "t", "a", " ", "p", "a", "t", "h", ":", " ">>, PostsDataPath>>),
    Concat(<<<<" ", " ", "F", "i", "l", "e", " ", "e", "x", "i", "s", "t", "s", ":", " ">>, BooleanToString(exists)>>)>>

\* line 365
FoundExistingLog(existingPosts) ==
  <<Concat(<<<<" ", " ", "F", "o", "u", "n", "d", " ">>, NatToString(Cardinality(existingPosts)), <<" ", "e", "x", "i", "s", "t", "i", "n", "g", " ", "p", "o", "s", "t", "s">>>>)>>

\* line 371
ProcessingLog ==
  <<<<"\n", "U+D83D", "U+DCDD", " ", "P", "r", "o", "c", "e", "s", "s", "i", "n", "g", " ", "l", "i", "k", "e", "d", " ", "t", "w", "e", "e", "t", "s", ".", ".", ".">>>>

\* One pass of the loop at lines 373-416: lines 378, 383-385, 392 and 395.
BookmarkLog(bookmark, existingPosts, debug) ==
  IF SlugOf(bookmark) \in existingPosts
  THEN <<Concat(<<<<"U+23ED", "U+FE0F", " ", " ", "S", "k", "i", "p", "p", "i", "n", "g", " ", "e", "x", "i", "s", "t", "i", "n", "g", " ", "p", "o", "s", "t", ":", " ">>, SlugOf(bookmark)>>)>>
  ELSE (IF debug
        THEN <<Concat(<<<<"\n", " ", " ", "P", "r", "o", "c", "e", "s", "s", "i", "n", "g", ":", " ">>, SlugOf(bookmark)>>),
               Concat(<<<<" ", " ", " ", " ", "A", "u", "t", "h", "o", "r", ":", " ">>, Interpolate(bookmark.author_name)>>),
               Concat(<<<<" ", " ", " ", " ", "T", "e", "x", "t", " ", "l", "e", "n", "g", "t", "h", ":", " ">>, NatToString(Len(bookmark.text)), <<" ", "c", "h", "a", "r", "s">>>>)>>
        ELSE <<>>) \o
       <<Concat(<<<<"U+2705", " ", "C", "r", "e", "a", "t", "e", "d", ":", " ">>, MdPath(SlugOf(bookmark))>>)>> \o
       (IF debug
        THEN <<Concat(<<<<" ", " ", " ", " ", "F", "i", "l", "e", " ", "s", "i", "z", "e", ":", " ">>, NatToString(Len(likedTweetToMarkdown(bookmark))), <<" ", "b", "y", "t", "e", "s">>>>)>>
        ELSE <<>>)

LoopLog(data, existingPosts, debug) ==
  Concat([i \in DOMAIN data |-> BookmarkLog(data[i], existingPosts, debug)])

\* line 419
NoNewPostsLog ==
  <<<<"U+2139", "U+FE0F", " ", " ", "N", "o", " ", "n", "e", "w", " ", "p", "o", "s", "t", "s", " ", "t", "o", " ", "a", "d", "d">>>>

\* line 421
AllExistLog ==
  <<<<" ", " ", "A", "l", "l", " ", "l", "i", "k", "e", "d", " ", "t", "w", "e", "e", "t", "s", " ", "a", "l", "r", "e", "a", "d", "y", " ", "e", "x", "i", "s", "t", " ", "i", "n", " ", "p", "o", "s", "t", "s", ".", "t", "s">>>>

\* line 427
UpdatingLog(newPosts) ==
  <<Concat(<<<<"\n", "U+D83D", "U+DCDD", " ", "U", "p", "d", "a", "t", "i", "n", "g", " ", "p", "o", "s", "t", "s", ".", "t", "s", " ", "w", "i", "t", "h", " ">>, NatToString(Len(newPosts)), <<" ", "n", "e", "w", " ", "p", "o", "s", "t", "s", ".", ".", ".">>>>)>>

\* lines 430-433
NewPostsDebugLog(newPosts) ==
  <<<<" ", " ", "N", "e", "w", " ", "p", "o", "s", "t", "s", " ", "t", "o", " ", "a", "d", "d", ":">>>> \o
  [i \in DOMAIN newPosts |->
     Concat(<<<<" ", " ", " ", " ">>, NatToString(i), <<".", " ">>, newPosts[i].id, <<" ", "-", " ">>, Substring(newPosts[i].title, 0, 50), <<".", ".", ".">>>>)]

\* line 475
UpdatedLog ==
  <<<<"U+2705", " ", "U", "p", "d", "a", "t", "e", "d", " ", "p", "o", "s", "t", "s", ".", "t", "s">>>>

\* lines 478-479
UpdatedDebugLog(newContent, newPosts, existingPosts) ==
  <<Concat(<<<<" ", " ", "F", "i", "l", "e", " ", "s", "i", "z", "e", ":", " ">>, NatToString(Len(newContent)), <<" ", "b", "y", "t", "e", "s">>>>),
    Concat(<<<<" ", " ", "T", "o", "t", "a", "l", " ", "p", "o", "s", "t", "s", " ", "i", "n", " ", "f", "i", "l", "e", ":", " ">>, NatToString(Len(newPosts) + Cardinality(existingPosts))>>)>>

\* line 483
SuccessLog(newPosts) ==
  <<Concat(<<<<"\n", "U+D83C", "U+DF89", " ", "S", "u", "c", "c", "e", "s", "s", "f", "u", "l", "l", "y", " ", "c", "r", "e", "a", "t", "e", "d", " ">>, NatToString(Len(newPosts)), <<" ", "n", "e", "w", " ", "b", "l", "o", "g", " ", "p", "o", "s", "t", "s", " ", "f", "r", "o", "m", " ", "X", " ", "l", "i", "k", "e", "d", " ", "t", "w", "e", "e", "t", "s", "!">>>>)>>

\* lines 486-494: the catch of main
CatchLog(error, debug) ==
  <<<<"\n", "U+274C", " ", "E", "R", "R", "O", "R", " ", "O", "C", "C", "U", "R", "R", "E", "D">>,
    <<"U+2550", "U+2550", "U+2550", "U+2550", "U+2550", "U+2550", "U+2550", "U+2550", "U+2550", "U+2550", "U+2550", "U+2550", "U+2550", "U+2550", "U+2550", "U+2550", "U+2550", "U+2550", "U+2550", "U+2550", "U+2550", "U+2550", "U+2550", "U+2550", "U+2550", "U+2550", "U+2550", "U+2550", "U+2550", "U+2550", "U+2550", "U+2550", "U+2550", "U+2550", "U+2550", "U+2550", "U+2550", "U+2550", "U+2550">>,
    Concat(<<<<"E", "r", "r", "o", "r", " ", "M", "e", "s", "s", "a", "g", "e", ":", " ">>, error.message>>),
    Concat(<<<<"E", "r", "r", "o", "r", " ", "S", "t", "a", "c", "k", ":", " ">>, Stack(error)>>),
    <<"U+2550", "U+2550", "U+2550", "U+2550", "U+2550", "U+2550", "U+2550", "U+2550", "U+2550", "U+2550", "U+2550", "U+2550", "U+2550", "U+2550", "U+2550", "U+2550", "U+2550", "U+2550", "U+2550", "U+2550", "U+2550", "U+2550", "U+2550", "U+2550", "U+2550", "U+2550", "U+2550", "U+2550", "U+2550", "U+2550", "U+2550", "U+2550", "U+2550", "U+2550", "U+2550", "U+2550", "U+2550", "U+2550", "U+2550">>>> \o
  (IF debug THEN <<Concat(<<<<"\n", "F", "u", "l", "l", " ", "e", "r", "r", "o", "r", " ", "o", "b", "j", "e", "c", "t", ":", " ">>, Stack(error)>>)>> ELSE <<>>)

(***************************************************************************)
(* generateSlug                                                            *)
(***************************************************************************)
SlugLength == 50    \* the second argument of substring at line 248

\* String.prototype.toLowerCase for one character: what it becomes. The
\* capital I with a dot above becomes an i and a combining dot.
LowerCase(c) ==
  IF c \in UpperAlpha THEN <<FromCharCode(CharCode[c] + 32)>>
  ELSE IF c = "U+00C9" THEN <<"U+00E9">>
  ELSE IF c = "U+0130" THEN <<"i", "U+0307">>
  ELSE <<c>>

ToLowerCase(s) == Concat([i \in DOMAIN s |-> LowerCase(s[i])])

\* [a-z0-9]
SlugChars == LowerAlpha \cup Digits

\* s.replace(/[^a-z0-9]+/g, '-'): each longest run of other characters
\* becomes one hyphen.
ReplaceRuns(s) ==
  Concat([i \in DOMAIN s |->
            IF s[i] \in SlugChars THEN <<s[i]>>
            ELSE IF i = 1 \/ s[i - 1] \in SlugChars THEN <<"-">>
            ELSE <<>>])

\* s.replace(/^-+|-+$/g, ''): the hyphens at the start and at the end go.
TrimHyphens(s) ==
  LET keep == {i \in DOMAIN s : s[i] # "-"}
  IN  IF keep = {} THEN <<>>
      ELSE SubSeq(s, CHOOSE i \in keep : \A j \in 1..(i - 1) : s[j] = "-",
                     CHOOSE i \in keep : \A j \in (i + 1)..Len(s) : s[j] = "-")

generateSlug(text) == Substring(TrimHyphens(ReplaceRuns(ToLowerCase(text))), 0, SlugLength)

\* -- the texts generateSlug is called with -----------------------------------
MaxRepeats == 50    \* most repetitions of a unit in a text

SlugUnits == {<<"a">>, <<"A", "b", " ">>, <<"-">>, <<"U+00C9", "!">>, <<"x", "9", "_", "_">>}
SlugTails == {<<>>, <<" ", "B">>, <<"?", "x", "-">>, <<"U+0130">>}

\* unit, k times, then tail
SlugTexts ==
  {Concat([i \in 1..k |-> unit]) \o tail : unit \in SlugUnits, k \in 0..MaxRepeats, tail \in SlugTails}

\* generateSlug not called yet.
NoSlug == [called |-> FALSE, text |-> <<>>, result |-> <<>>]

\* generateSlug(slugCall.text) is called and returns.
CallGenerateSlug ==
  /\ ~slugCall.called
  /\ slugCall' = [slugCall EXCEPT !.called = TRUE, !.result = generateSlug(slugCall.text)]
  /\ UNCHANGED <<moduleVars, call, runVars, tasks, app, helper>>

(***************************************************************************)
(* The script: its steps                                                   *)
(***************************************************************************)
\* if (DEBUG) { ... }
When(debug, lines) == IF debug THEN lines ELSE <<>>

\* -- what is thrown ----------------------------------------------------------
\* fetch rejects
FetchFailed == Error(<<"T", "y", "p", "e", "E", "r", "r", "o", "r">>, <<"f", "e", "t", "c", "h", " ", "f", "a", "i", "l", "e", "d">>, <<"n", "o", "d", "e", ":", "i", "n", "t", "e", "r", "n", "a", "l", "/", "d", "e", "p", "s", "/", "u", "n", "d", "i", "c", "i", "/", "u", "n", "d", "i", "c", "i", ":", "1", "3", "5", "1", "0", ":", "1", "3">>)

\* lines 151-153
UserLookupError(response) ==
  Error(<<"E", "r", "r", "o", "r">>,
        Concat(<<<<"F", "a", "i", "l", "e", "d", " ", "t", "o", " ", "g", "e", "t", " ", "u", "s", "e", "r", " ", "I", "D", ":", " ">>, NatToString(response.status), <<" ">>, JsonCompact(ErrorOf(response))>>),
        Concat(<<<<"g", "e", "t", "U", "s", "e", "r", "I", "d", "F", "r", "o", "m", "U", "s", "e", "r", "n", "a", "m", "e", " ", "(">>, ScriptUrl, <<":", "1", "5", "1", ":", "1", "1", ")">>>>))

\* data.data.id of a body without data: line 158 with DEBUG, line 160 without
NoDataError(debug) ==
  Error(<<"T", "y", "p", "e", "E", "r", "r", "o", "r">>, <<"C", "a", "n", "n", "o", "t", " ", "r", "e", "a", "d", " ", "p", "r", "o", "p", "e", "r", "t", "i", "e", "s", " ", "o", "f", " ", "u", "n", "d", "e", "f", "i", "n", "e", "d", " ", "(", "r", "e", "a", "d", "i", "n", "g", " ", "'", "i", "d", "'", ")">>,
        Concat(<<<<"g", "e", "t", "U", "s", "e", "r", "I", "d", "F", "r", "o", "m", "U", "s", "e", "r", "n", "a", "m", "e", " ", "(">>, ScriptUrl, IF debug THEN <<":", "1", "5", "8", ":", "4", "4", ")">> ELSE <<":", "1", "6", "0", ":", "2", "0", ")">>>>))

\* lines 208-210
LikedTweetsError(response) ==
  Error(<<"E", "r", "r", "o", "r">>,
        Concat(<<<<"F", "a", "i", "l", "e", "d", " ", "t", "o", " ", "f", "e", "t", "c", "h", " ", "X", " ", "l", "i", "k", "e", "d", " ", "t", "w", "e", "e", "t", "s", ":", " ">>, NatToString(response.status), <<" ">>, JsonCompact(ErrorOf(response))>>),
        Concat(<<<<"f", "e", "t", "c", "h", "X", "L", "i", "k", "e", "d", "T", "w", "e", "e", "t", "s", " ", "(">>, ScriptUrl, <<":", "2", "0", "8", ":", "1", "1", ")">>>>))

\* data.data.map of a body without data: line 229
MapError ==
  Error(<<"T", "y", "p", "e", "E", "r", "r", "o", "r">>, <<"C", "a", "n", "n", "o", "t", " ", "r", "e", "a", "d", " ", "p", "r", "o", "p", "e", "r", "t", "i", "e", "s", " ", "o", "f", " ", "u", "n", "d", "e", "f", "i", "n", "e", "d", " ", "(", "r", "e", "a", "d", "i", "n", "g", " ", "'", "m", "a", "p", "'", ")">>,
        Concat(<<<<"f", "e", "t", "c", "h", "X", "L", "i", "k", "e", "d", "T", "w", "e", "e", "t", "s", " ", "(">>, ScriptUrl, <<":", "2", "2", "9", ":", "2", "7", ")">>>>))

\* writeFileSync(postsDataPath, ...) when src/data does not exist: line 474
EnoentError ==
  Error(<<"E", "r", "r", "o", "r">>, Concat(<<<<"E", "N", "O", "E", "N", "T", ":", " ", "n", "o", " ", "s", "u", "c", "h", " ", "f", "i", "l", "e", " ", "o", "r", " ", "d", "i", "r", "e", "c", "t", "o", "r", "y", ",", " ", "o", "p", "e", "n", " ", "'">>, PostsDataPath, <<"'">>>>),
        <<"O", "b", "j", "e", "c", "t", ".", "w", "r", "i", "t", "e", "F", "i", "l", "e", "S", "y", "n", "c", " ", "(", "n", "o", "d", "e", ":", "f", "s", ":", "2", "3", "4", "6", ":", "2", "0", ")">>)

\* -- the module's first lines ------------------------------------------------
\* A credential is missing: process.exit(1) at line 61.
ModuleLoadExit ==
  /\ pc = "load"
  /\ CredentialsMissing(env.X_API_KEY, env.X_API_SECRET, env.X_ACCESS_TOKEN, env.X_ACCESS_TOKEN_SECRET)
  /\ LoadConstants
  /\ console' = console \o
                When(DEBUG', DebugConfigLog(X_USERNAME', MAX_BOOKMARKS', X_API_KEY', X_API_SECRET',
                                            X_ACCESS_TOKEN', X_ACCESS_TOKEN_SECRET')) \o
                MissingCredentialsLog
  /\ pc' = "exited"
  /\ exitStatus' = "exit1"
  /\ UNCHANGED <<call, env, signerCalls, requests, responses, userId, likesData, dirs, postsTs, writes, atStart, tasks, app, slugCall, helper>>

\* The credentials are there: the module goes on to its last line, main().
ModuleLoadOk ==
  /\ pc = "load"
  /\ ~CredentialsMissing(env.X_API_KEY, env.X_API_SECRET, env.X_ACCESS_TOKEN, env.X_ACCESS_TOKEN_SECRET)
  /\ LoadConstants
  /\ console' = console \o
                When(DEBUG', DebugConfigLog(X_USERNAME', MAX_BOOKMARKS', X_API_KEY', X_API_SECRET',
                                            X_ACCESS_TOKEN', X_ACCESS_TOKEN_SECRET'))
  /\ pc' = "main"
  /\ UNCHANGED <<call, env, exitStatus, signerCalls, requests, responses, userId, likesData, dirs, postsTs, writes, atStart, tasks, app, slugCall, helper>>

\* -- main ----------------------------------------------------------------------
\* main() runs to the fetch of getUserIdFromUsername(X_USERNAME).
MainStart ==
  /\ pc = "main"
  /\ \E draw \in RunDraws :
       LET url == UserLookupUrlOf(X_USERNAME)
           c == createOAuthHeader(GET, url, UserLookupParams, draw[1], draw[2], draw[3])
       IN  /\ signerCalls' = Append(signerCalls, c)
           /\ requests' = Append(requests, Request(url, UserLookupAppended, c.authHeader))
           /\ console' = console \o MainBannerLog(X_USERNAME, MAX_BOOKMARKS) \o
                         When(DEBUG, UserLookupDebugLog(url))
  /\ pc' = "awaitUser"
  /\ UNCHANGED <<moduleVars, call, env, exitStatus, responses, userId, likesData, dirs, postsTs, writes, atStart, tasks, app, slugCall, helper>>

\* The catch of main without its last line: the process ends as after a
\* return.
ExitWithError_returns(printed, error) ==
  /\ console' = console \o printed \o CatchLog(error, DEBUG)
  /\ pc' = "exited"
  /\ exitStatus' = "exit0"

\* The catch of main, lines 485-496: the error is printed and the process
\* exits with 1.
ExitWithError(printed, error) ==
  /\ console' = console \o printed \o CatchLog(error, DEBUG)
  /\ pc' = "exited"
  /\ exitStatus' = "exit1"

\* The bodies of an OK response of the user lookup: with data.id or
\* without data.
UserLookupBodies ==
  {[hasData |-> TRUE, id |-> id] : id \in UserIds} \cup {[hasData |-> FALSE, id |-> undefined]}

\* The user lookup fails: fetch rejects, the status is not OK, or the body
\* of an OK response has no data object (data.data.id throws).
UserLookupFails ==
  /\ pc = "awaitUser"
  /\ \/ /\ responses' = responses
        /\ ExitWithError(<<>>, FetchFailed)
     \/ \E response \in ErrorResponses :
          /\ responses' = Append(responses, response)
          /\ ExitWithError(When(DEBUG, ResponseStatusLog(response)) \o UserLookupFailedLog(response),
                           UserLookupError(response))
     \/ \E body \in {b \in UserLookupBodies : ~b.hasData} :
          /\ responses' = Append(responses, OkResponse(body))
          /\ ExitWithError(When(DEBUG, ResponseStatusLog(OkResponse(body))), NoDataError(DEBUG))
  /\ UNCHANGED <<moduleVars, call, env, signerCalls, requests, userId, likesData, dirs, postsTs, writes, atStart, tasks, app, slugCall, helper>>

\* The user lookup returns data.data.id; main goes on into
\* fetchXLikedTweets(userId, MAX_BOOKMARKS), to its fetch.
UserLookupOk ==
  /\ pc = "awaitUser"
  /\ \E body \in {b \in UserLookupBodies : b.hasData}, draw \in RunDraws :
       LET id == body.id
           url == LikedTweetsUrlOf(id)
           queryParams == LikedTweetsParams(MAX_BOOKMARKS)
           c == createOAuthHeader(GET, url, queryParams, draw[1], draw[2], draw[3])
       IN  /\ responses' = Append(responses, OkResponse(body))
           /\ userId' = id
           /\ signerCalls' = Append(signerCalls, c)
           /\ requests' = Append(requests, Request(url, queryParams, c.authHeader))
           /\ console' = console \o
                         When(DEBUG, ResponseStatusLog(OkResponse(body)) \o UserIdDebugLog(id)) \o
                         FoundUserLog(id) \o
                         When(DEBUG, LikedTweetsDebugLog(id, MAX_BOOKMARKS, url))
  /\ pc' = "awaitLikes"
  /\ UNCHANGED <<moduleVars, call, env, exitStatus, likesData, dirs, postsTs, writes, atStart, tasks, app, slugCall, helper>>

\* What fetchXLikedTweets prints with DEBUG for an OK response, lines
\* 198-228.
LikedTweetsOkLog(body) ==
  ResponseStatusLog(OkResponse(body)) \o ResponseHeadersLog \o CountsDebugLog(body) \o
  (IF body.hasUsers THEN EnrichingLog ELSE <<>>)

\* The liked-tweets request fails: fetch rejects, the status is not OK, or
\* the enrichment throws.
LikedTweetsFails ==
  /\ pc = "awaitLikes"
  /\ \/ /\ responses' = responses
        /\ ExitWithError(<<>>, FetchFailed)
     \/ \E response \in ErrorResponses :
          /\ responses' = Append(responses, response)
          /\ ExitWithError(When(DEBUG, ResponseStatusLog(response) \o ResponseHeadersLog) \o
                           LikedTweetsFailedLog(response),
                           LikedTweetsError(response))
     \/ \E body \in LikesBodies :
          /\ EnrichThrows(body)
          /\ responses' = Append(responses, OkResponse(body))
          /\ ExitWithError(When(DEBUG, LikedTweetsOkLog(body)), MapError)
  /\ UNCHANGED <<moduleVars, call, env, signerCalls, requests, userId, likesData, dirs, postsTs, writes, atStart, tasks, app, slugCall, helper>>

\* !likesData.data || likesData.data.length === 0: main returns at line 315.
LikedTweetsNone ==
  /\ pc = "awaitLikes"
  /\ \E body \in LikesBodies :
       /\ ~EnrichThrows(body)
       /\ ~EnrichedData(body).hasData \/ EnrichedData(body).data = <<>>
       /\ responses' = Append(responses, OkResponse(body))
       /\ likesData' = EnrichedData(body)
       /\ console' = console \o When(DEBUG, LikedTweetsOkLog(body)) \o NoLikedTweetsLog
  /\ pc' = "exited"
  /\ exitStatus' = "exit0"
  /\ UNCHANGED <<moduleVars, call, env, signerCalls, requests, userId, dirs, postsTs, writes, atStart, tasks, app, slugCall, helper>>

\* main from line 318 to its end, for the liked tweets in data, the posts.ts
\* in file and the directories in existing: what it writes, what posts.ts is
\* afterwards, how the process ends and what it prints.
MainOutcome(data, file, existing, debug) ==
  LET existingPosts == ExistingPosts(file)
      fresh == FreshTweets(data, existingPosts)
      newPosts == [i \in DOMAIN fresh |-> NewPost(fresh[i])]
      mdWrites == [i \in DOMAIN fresh |->
                     [path |-> MdPath(SlugOf(fresh[i])),
                      content |-> likedTweetToMarkdown(fresh[i])]]
      postsContent == IF file.exists THEN file.content ELSE DefaultPostsContent
      loop == Concat(<<FetchedLog(data),
                       When(debug, TweetDetailsLog(data) \o DirectoriesDebugLog),
                       CreatingDirectoriesLog(existing),
                       When(debug, ExistingPostsDebugLog(file.exists)),
                       When(debug /\ file.exists, FoundExistingLog(existingPosts)),
                       ProcessingLog,
                       LoopLog(data, existingPosts, debug)>>)
      updating == loop \o UpdatingLog(newPosts) \o When(debug, NewPostsDebugLog(newPosts))
  IN  IF newPosts = <<>>
      THEN \* line 423
           [writes |-> <<>>, postsTs |-> file, exitStatus |-> "exit0",
            console |-> loop \o NoNewPostsLog \o When(debug, AllExistLog)]
      ELSE IF ~ArrayMatch(RestOfContent(postsContent)).found
      THEN \* arrayMatch is null: posts.ts is not written
           [writes |-> mdWrites, postsTs |-> file, exitStatus |-> "exit0",
            console |-> updating \o SuccessLog(newPosts)]
      ELSE IF DataDir \notin existing
      THEN \* writeFileSync(postsDataPath, ...) throws ENOENT
           [writes |-> mdWrites, postsTs |-> file, exitStatus |-> "exit1",
            console |-> updating \o CatchLog(EnoentError, debug)]
      ELSE LET newContent == NewContent(postsContent, newPosts)
           IN  [writes |-> Append(mdWrites, [path |-> PostsDataPath, content |-> newContent]),
                postsTs |-> [exists |-> TRUE, content |-> newContent],
                exitStatus |-> "exit0",
                console |-> Concat(<<updating, UpdatedLog,
                                     When(debug, UpdatedDebugLog(newContent, newPosts, existingPosts)),
                                     SuccessLog(newPosts)>>)]

\* There are liked tweets: main runs from line 318 to its end.
LikedTweetsProcessed ==
  /\ pc = "awaitLikes"
  /\ \E body \in LikesBodies :
       /\ ~EnrichThrows(body)
       /\ EnrichedData(body).hasData /\ EnrichedData(body).data # <<>>
       /\ \E out \in {MainOutcome(EnrichedData(body).data, postsTs, dirs, DEBUG)} :
            /\ responses' = Append(responses, OkResponse(body))
            /\ likesData' = EnrichedData(body)
            /\ dirs' = dirs \cup {PostsDir, PublicBlogsDir}
            /\ writes' = writes \o out.writes
            /\ postsTs' = out.postsTs
            /\ exitStatus' = out.exitStatus
            /\ console' = console \o When(DEBUG, LikedTweetsOkLog(body)) \o out.console
  /\ pc' = "exited"
  /\ UNCHANGED <<moduleVars, call, env, signerCalls, requests, userId, atStart, tasks, app, slugCall, helper>>

(***************************************************************************)
(* The OAuth 2.0 token helper, src/OAUTH_SETUP.md lines 397-537            *)
(***************************************************************************)
\* What the helper prints is left out; its requests, responses and server
\* are modelled.
null == <<"null">>

CallbackPath == <<"/", "c", "a", "l", "l", "b", "a", "c", "k">>
CodeParam == <<"c", "o", "d", "e">>
StateParam == <<"s", "t", "a", "t", "e">>

\* url.searchParams.get(name): the first value under this name, or null.
SearchParamsGet(query, name) ==
  LET hits == {i \in DOMAIN query : query[i][1] = name}
  IN  IF hits = {} THEN null ELSE query[Min(hits)][2]

\* !code
NoCode(code) == code \in {null, <<>>}

\* The helper before its first line: process.env and process.argv[2].
NoHelper ==
  [pc |-> "load",
   env |-> [X_CLIENT_ID |-> undefined, X_CLIENT_SECRET |-> undefined, argv2 |-> undefined],
   CLIENT_ID |-> undefined, CLIENT_SECRET |-> undefined,
   state |-> undefined,
   requests |-> <<>>,          \* the requests the server got, each with the status it was answered with (0: not answered)
   tokenRequests |-> <<>>]     \* the POSTs to the token endpoint: the code sent, the request it came from, answered or not

\* -- what the helper is run with and what reaches it -----------------------
MaxRequests == 3    \* most requests the local server gets

\* Values of randomBytes(16).toString('hex').
HelperStates == {<<"9", "f", "3", "a">>, <<"0", "0", "b", "7">>}

HelperQueries ==
  {<<>>,
   <<<<CodeParam, <<"c", "1">>>>>>,
   <<<<StateParam, <<"9", "f", "3", "a">>>>>>,
   <<<<CodeParam, <<"c", "1">>>>, <<StateParam, <<"9", "f", "3", "a">>>>>>,
   <<<<StateParam, <<"9", "f", "3", "a">>>>, <<CodeParam, <<"c", "2">>>>>>,
   <<<<CodeParam, <<>>>>, <<StateParam, <<"9", "f", "3", "a">>>>>>,
   <<<<CodeParam, <<"c", "1">>>>, <<StateParam, <<"0", "0", "b", "7">>>>>>,
   <<<<CodeParam, <<"c", "1">>>>, <<StateParam, <<"0", "0", "b", "7">>>>, <<StateParam, <<"9", "f", "3", "a">>>>>>}

HelperRequests ==
  {[pathname |-> p, query |-> q, status |-> 0] : p \in {CallbackPath, <<"/", "f", "a", "v", "i", "c", "o", "n", ".", "i", "c", "o">>}, q \in HelperQueries}

\* How the fetch of the token endpoint ends: an OK response, a response
\* that is not OK, a rejection.
TokenOutcomes == {"ok", "notOk", "rejects"}

\* -- lines 416-428 and 437-438 ------------------------------------------------
\* A credential is missing: process.exit(1) at line 427.
HelperLoadExit ==
  /\ helper.pc = "load"
  /\ ~Truthy(OrElse(helper.env.X_CLIENT_ID, helper.env.argv2)) \/ ~Truthy(helper.env.X_CLIENT_SECRET)
  /\ helper' = [helper EXCEPT !.CLIENT_ID = OrElse(helper.env.X_CLIENT_ID, helper.env.argv2),
                              !.CLIENT_SECRET = helper.env.X_CLIENT_SECRET,
                              !.pc = "exited"]
  /\ UNCHANGED <<moduleVars, call, runVars, tasks, app, slugCall>>

\* The state is generated and the server listens on port 5173.
HelperListen ==
  /\ helper.pc = "load"
  /\ Truthy(OrElse(helper.env.X_CLIENT_ID, helper.env.argv2)) /\ Truthy(helper.env.X_CLIENT_SECRET)
  /\ \E state \in HelperStates :
       helper' = [helper EXCEPT !.CLIENT_ID = OrElse(helper.env.X_CLIENT_ID, helper.env.argv2),
                                !.CLIENT_SECRET = helper.env.X_CLIENT_SECRET,
                                !.state = state,
                                !.pc = "listening"]
  /\ UNCHANGED <<moduleVars, call, runVars, tasks, app, slugCall>>

\* -- the request handler, lines 458-523 -------------------------------------
\* server.close() is taken at its most: the server gets no further request.
\* The handlers that wait for the token endpoint go on.
\* A request for another path: the handler returns without answering it.
OtherPathRequest ==
  /\ helper.pc = "listening"
  /\ Len(helper.requests) < MaxRequests
  /\ \E req \in HelperRequests :
       /\ req.pathname # CallbackPath
       /\ helper' = [helper EXCEPT !.requests = Append(@, req)]
  /\ UNCHANGED <<moduleVars, call, runVars, tasks, app, slugCall>>

\* A /callback request without a code or with another state: 400, and the
\* server is closed (lines 465-470).
CallbackRejected ==
  /\ helper.pc = "listening"
  /\ Len(helper.requests) < MaxRequests
  /\ \E req \in HelperRequests :
       /\ req.pathname = CallbackPath
       /\ NoCode(SearchParamsGet(req.query, CodeParam)) \/ SearchParamsGet(req.query, StateParam) # helper.state
       /\ helper' = [helper EXCEPT !.requests = Append(@, [req EXCEPT !.status = 400]),
                                   !.pc = "closed"]
  /\ UNCHANGED <<moduleVars, call, runVars, tasks, app, slugCall>>

\* A /callback request with a code and the state of this run: the handler
\* posts the code to the token endpoint and awaits the response (line 476).
CallbackExchangeBegins ==
  /\ helper.pc = "listening"
  /\ Len(helper.requests) < MaxRequests
  /\ \E req \in HelperRequests :
       /\ req.pathname = CallbackPath
       /\ ~NoCode(SearchParamsGet(req.query, CodeParam))
       /\ SearchParamsGet(req.query, StateParam) = helper.state
       /\ helper' = [helper EXCEPT !.requests = Append(@, req),
                                   !.tokenRequests = Append(@, [code |-> SearchParamsGet(req.query, CodeParam),
                                                                request |-> Len(helper.requests) + 1,
                                                                answered |-> FALSE])]
  /\ UNCHANGED <<moduleVars, call, runVars, tasks, app, slugCall>>

\* The fetch of a waiting handler ends: 200 for an OK response, 500 when
\* the response is not OK or fetch rejects, and the server is closed (lines
\* 490-521).
CallbackExchangeEnds ==
  /\ \E t \in DOMAIN helper.tokenRequests, outcome \in TokenOutcomes :
       /\ ~helper.tokenRequests[t].answered
       /\ helper' = [helper EXCEPT !.tokenRequests[t].answered = TRUE,
                                   !.requests[helper.tokenRequests[t].request].status =
                                      IF outcome = "ok" THEN 200 ELSE 500,
                                   !.pc = "closed"]
  /\ UNCHANGED <<moduleVars, call, runVars, tasks, app, slugCall>>

(***************************************************************************)
(* The display app, src/src/App.tsx                                        *)
(***************************************************************************)
\* The state after the first render: the useState calls at lines 25-30; no
\* request issued.
Mounted ==
  [bearerToken |-> <<>>, username |-> <<"A", "b", "h", "i", "r", "a", "m", "2", "k", "0", "3">>, maxBookmarks |-> 10,
   bookmarks |-> <<>>, loading |-> FALSE, error |-> <<>>, fetches |-> <<>>]

\* The message of line 33.
UnsupportedMessage == <<"U+26A0", "U+FE0F", " ", "B", "r", "o", "w", "s", "e", "r", "-", "b", "a", "s", "e", "d", " ", "f", "e", "t", "c", "h", "i", "n", "g", " ", "i", "s", " ", "n", "o", "t", " ", "s", "u", "p", "p", "o", "r", "t", "e", "d", " ", "f", "o", "r", " ", "X", " ", "b", "o", "o", "k", "m", "a", "r", "k", "s", ".", " ", "T", "h", "e", " ", "X", " ", "A", "P", "I", " ", "r", "e", "q", "u", "i", "r", "e", "s", " ", "O", "A", "u", "t", "h", " ", "1", ".", "0", "a", " ", "U", "s", "e", "r", " ", "C", "o", "n", "t", "e", "x", "t", " ", "a", "u", "t", "h", "e", "n", "t", "i", "c", "a", "t", "i", "o", "n", " ", "w", "h", "i", "c", "h", " ", "c", "a", "n", "n", "o", "t", " ", "b", "e", " ", "i", "m", "p", "l", "e", "m", "e", "n", "t", "e", "d", " ", "s", "e", "c", "u", "r", "e", "l", "y", " ", "i", "n", " ", "a", " ", "b", "r", "o", "w", "s", "e", "r", ".", " ", "P", "l", "e", "a", "s", "e", " ", "u", "s", "e", " ", "t", "h", "e", " ", "G", "i", "t", "H", "u", "b", " ", "A", "c", "t", "i", "o", "n", "s", " ", "w", "o", "r", "k", "f", "l", "o", "w", " ", "o", "r", " ", "r", "u", "n", " ", "t", "h", "e", " ", "s", "c", "r", "i", "p", "t", " ", "l", "o", "c", "a", "l", "l", "y", " ", "w", "i", "t", "h", " ", "p", "r", "o", "p", "e", "r", " ", "O", "A", "u", "t", "h", " ", "c", "r", "e", "d", "e", "n", "t", "i", "a", "l", "s", ".">>

\* What the user may type into the three inputs.
TypedTokens == {<<>>, <<"A", "A", "A", "A", "%", "2", "F">>, <<"t", "o", "k">>, <<"x">>}
TypedUsernames == {<<>>, <<"j", "a", "c", "k">>, <<"A", "b", "h", "i", "r", "a", "m", "2", "k", "0", "3">>}
TypedNumbers == {<<>>, <<"1">>, <<"5">>, <<"1", "0", "0">>}

\* onChange of the inputs, lines 124, 137 and 150.
SetBearerToken ==
  /\ \E value \in TypedTokens : app' = [app EXCEPT !.bearerToken = value]
  /\ UNCHANGED <<moduleVars, call, runVars, tasks, slugCall, helper>>

SetUsername ==
  /\ \E value \in TypedUsernames : app' = [app EXCEPT !.username = value]
  /\ UNCHANGED <<moduleVars, call, runVars, tasks, slugCall, helper>>

SetMaxBookmarks ==
  /\ \E value \in TypedNumbers : app' = [app EXCEPT !.maxBookmarks = parseInt(value)]
  /\ UNCHANGED <<moduleVars, call, runVars, tasks, slugCall, helper>>

\* fetchBookmarks without the return of line 34, to its first await: lines
\* 39-58.
fetchBookmarks_live ==
  /\ ~app.loading
  /\ IF app.bearerToken = <<>>
     THEN app' = [app EXCEPT !.error = <<"P", "l", "e", "a", "s", "e", " ", "e", "n", "t", "e", "r", " ", "y", "o", "u", "r", " ", "X", " ", "B", "e", "a", "r", "e", "r", " ", "T", "o", "k", "e", "n">>]
     ELSE app' = [app EXCEPT !.loading = TRUE, !.error = <<>>, !.bookmarks = <<>>,
                             !.fetches = Append(app.fetches,
                                                Concat(<<UserLookupPrefix, app.username, <<"?", "u", "s", "e", "r", ".", "f", "i", "e", "l", "d", "s", "=", "i", "d">>>>))]
  /\ UNCHANGED <<moduleVars, call, runVars, tasks, slugCall, helper>>

\* onClick of the button, which is disabled while loading: fetchBookmarks,
\* lines 32-34. What follows the return at line 34 is never run.
fetchBookmarks ==
  /\ ~app.loading
  /\ app' = [app EXCEPT !.error = UnsupportedMessage]
  /\ UNCHANGED <<moduleVars, call, runVars, tasks, slugCall, helper>>

AppNext ==
  \/ SetBearerToken
  \/ SetUsername
  \/ SetMaxBookmarks
  \/ fetchBookmarks

(***************************************************************************)
(* A run of the script                                                     *)
(***************************************************************************)
\* What process.env may hold for each variable the script reads.
EnvCredentialValues(value) == {undefined, <<>>, value}

RunCredentials == [key |-> <<"k", " ", "\"", ",", "/", "+">>, secret |-> <<"s", "&", "=">>, token |-> <<"7", "-", "a", "%", "4", "1", "~", "!">>, tokenSecret |-> <<"p", "'", "(", "*", ")">>]

\* posts.ts when it does not exist.
NoFile == [exists |-> FALSE, content |-> <<>>]

\* A posts.ts that declares its array with a type: no `const posts = [`.
TypedPostsContent == <<"e", "x", "p", "o", "r", "t", " ", "c", "o", "n", "s", "t", " ", "p", "o", "s", "t", "s", ":", " ", "P", "o", "s", "t", "[", "]", " ", "=", " ", "[", "]", ";", "\n", "e", "x", "p", "o", "r", "t", " ", "d", "e", "f", "a", "u", "l", "t", " ", "p", "o", "s", "t", "s", ";", "\n">>

\* No run before this one.
NoPrevious == [ran |-> FALSE, body |-> [hasData |-> FALSE, data |-> <<>>, hasUsers |-> FALSE, users |-> <<>>]]

\* The response an earlier run got: tweet 1 and its author.
EarlierBody ==
  [hasData |-> TRUE, data |-> <<CHOOSE t \in RawTweets : t.id = <<"1">>>>, hasUsers |-> TRUE, users |-> <<UserA>>]

AllDirs == {DataDir, PostsDir, PublicBlogsDir}

\* The directories and posts.ts a run may find: nothing; the data directory;
\* the text main starts from; a text without the array; and what a
\* successful earlier run that got EarlierBody left, over the text main
\* starts from and over the text without the array.
InitialFiles ==
  {[dirs |-> {}, postsTs |-> NoFile, previous |-> NoPrevious],
   [dirs |-> {DataDir}, postsTs |-> NoFile, previous |-> NoPrevious],
   [dirs |-> {DataDir}, postsTs |-> [exists |-> TRUE, content |-> DefaultPostsContent], previous |-> NoPrevious],
   [dirs |-> {DataDir}, postsTs |-> [exists |-> TRUE, content |-> TypedPostsContent], previous |-> NoPrevious]}
  \cup
  {[dirs |-> AllDirs,
    postsTs |-> MainOutcome(EnrichedData(EarlierBody).data, [exists |-> TRUE, content |-> content], {DataDir}, FALSE).postsTs,
    previous |-> [ran |-> TRUE, body |-> EarlierBody]] : content \in {DefaultPostsContent, TypedPostsContent}}

\* X_USERNAME, MAX_BOOKMARKS and DEBUG in process.env: none set; all set,
\* DEBUG to 'true'; DEBUG set to another text.
EnvSettings ==
  {[X_USERNAME |-> undefined, MAX_BOOKMARKS |-> undefined, DEBUG |-> undefined],
   [X_USERNAME |-> <<"j", "a", "c", "k">>, MAX_BOOKMARKS |-> <<"5">>, DEBUG |-> <<"t", "r", "u", "e">>],
   [X_USERNAME |-> undefined, MAX_BOOKMARKS |-> <<"5">>, DEBUG |-> <<"f", "a", "l", "s", "e">>]}

RunInit ==
  /\ \E key \in EnvCredentialValues(RunCredentials.key),
        secret \in EnvCredentialValues(RunCredentials.secret),
        token \in EnvCredentialValues(RunCredentials.token),
        tokenSecret \in EnvCredentialValues(RunCredentials.tokenSecret),
        settings \in EnvSettings :
       env = [X_API_KEY |-> key, X_API_SECRET |-> secret, X_ACCESS_TOKEN |-> token,
              X_ACCESS_TOKEN_SECRET |-> tokenSecret, X_USERNAME |-> settings.X_USERNAME,
              MAX_BOOKMARKS |-> settings.MAX_BOOKMARKS, DEBUG |-> settings.DEBUG]
  /\ X_API_KEY = undefined
  /\ X_API_SECRET = undefined
  /\ X_ACCESS_TOKEN = undefined
  /\ X_ACCESS_TOKEN_SECRET = undefined
  /\ X_USERNAME = undefined
  /\ MAX_BOOKMARKS = NaN
  /\ DEBUG = FALSE
  /\ call = NoCall
  /\ pc = "load"
  /\ exitStatus = "running"
  /\ signerCalls = <<>>
  /\ requests = <<>>
  /\ responses = <<>>
  /\ userId = undefined
  /\ likesData = [hasData |-> FALSE, data |-> <<>>]
  /\ \E f \in InitialFiles :
       /\ dirs = f.dirs
       /\ postsTs = f.postsTs
       /\ atStart = f
  /\ writes = <<>>
  /\ console = <<>>
  /\ tasks = <<>>
  /\ app = Mounted
  /\ slugCall = NoSlug
  /\ helper = NoHelper

RunNext ==
  \/ ModuleLoadExit
  \/ ModuleLoadOk
  \/ MainStart
  \/ UserLookupFails
  \/ UserLookupOk
  \/ LikedTweetsFails
  \/ LikedTweetsNone
  \/ LikedTweetsProcessed

RunSpec == RunInit /\ [][RunNext]_vars

(***************************************************************************)
(* The signer called with any arguments                                    *)
(***************************************************************************)
\* The module is loaded, with credentials that passed the check at line 52.
Loaded ==
  /\ \E c \in CredentialSets :
       /\ X_API_KEY = c.key
       /\ X_API_SECRET = c.secret
       /\ X_ACCESS_TOKEN = c.token
       /\ X_ACCESS_TOKEN_SECRET = c.tokenSecret
  /\ X_USERNAME = DefaultUsername
  /\ MAX_BOOKMARKS = parseInt(DefaultMaxBookmarks)
  /\ DEBUG = FALSE
  /\ call = NoCall
  /\ env = [X_API_KEY |-> X_API_KEY, X_API_SECRET |-> X_API_SECRET,
            X_ACCESS_TOKEN |-> X_ACCESS_TOKEN, X_ACCESS_TOKEN_SECRET |-> X_ACCESS_TOKEN_SECRET,
            X_USERNAME |-> undefined, MAX_BOOKMARKS |-> undefined, DEBUG |-> undefined]
  /\ pc = "loaded"
  /\ exitStatus = "running"
  /\ signerCalls = <<>>
  /\ requests = <<>>
  /\ userId = undefined
  /\ likesData = [hasData |-> FALSE, data |-> <<>>]
  /\ responses = <<>>
  /\ dirs = {}
  /\ postsTs = NoFile
  /\ atStart = [dirs |-> {}, postsTs |-> NoFile, previous |-> NoPrevious]
  /\ writes = <<>>
  /\ console = <<>>
  /\ app = Mounted

Init == Loaded /\ tasks = <<>> /\ slugCall = NoSlug /\ helper = NoHelper

\* One invocation, with any arguments, clock value and random strings.
CallCreateOAuthHeader ==
  /\ call = NoCall
  /\ \E method \in Methods, url \in Urls, queryParams \in QueryParamObjects,
     now \in ClockValues, random1 \in RandomStrings, random2 \in RandomStrings :
       /\ call' = createOAuthHeader(method, url, queryParams, now, random1, random2)
  /\ UNCHANGED <<moduleVars, runVars, tasks, app, slugCall, helper>>

Next == CallCreateOAuthHeader

Spec == Init /\ [][Next]_vars

\* The display app in use; the script's module is loaded and does nothing.
AppSpec == Init /\ [][AppNext]_vars

(***************************************************************************)
(* Invocations of the signer in flight together                            *)
(***************************************************************************)
NumTasks == 2     \* invocations of createOAuthHeader in flight

\* An invocation not yet made: no locals.
NotCalled ==
  [pc |-> "notCalled", method |-> <<>>, url |-> <<>>, queryParams |-> <<>>,
   now |-> 0, random1 |-> <<>>, random2 |-> <<>>,
   oauthParams |-> <<>>, allParams |-> <<>>, signature |-> <<>>, authHeader |-> <<>>]

\* The arguments and the clock and random values of the invocations.
TaskInputs ==
  {[method |-> GET, url |-> UserLookupUrlOf(DefaultUsername), queryParams |-> UserLookupParams,
    now |-> 999, random1 |-> <<"0", ".", "i">>, random2 |-> <<"0", ".", "4", "f", "z", "y", "o", "8", "2", "m", "v", "y", "r">>],
   [method |-> GET, url |-> LikedTweetsUrlOf(<<"4", "2">>), queryParams |-> LikedTweetsParams(5),
    now |-> 1700000999, random1 |-> <<"0", ".", "4", "f", "z", "y", "o", "8", "2", "m", "v", "y", "r">>, random2 |-> <<"0", ".", "i">>],
   [method |-> POST, url |-> LikedTweetsUrlOf(<<"4", "2">>), queryParams |-> <<>>,
    now |-> 999, random1 |-> <<"0", ".", "4", "f", "z", "y", "o", "8", "2", "m", "v", "y", "r">>, random2 |-> <<"0", ".", "4", "f", "z", "y", "o", "8", "2", "m", "v", "y", "r">>]}

\* An object that every invocation would use as its oauthParams.
TaskOAuthParams_shared(t) == tasks[1].oauthParams

\* oauthParams, the object the invocation made at line 92.
TaskOAuthParams(t) == tasks[t].oauthParams

\* Lines 91-99: the call, and the object literal oauthParams.
TaskBegin(t) ==
  /\ tasks[t].pc = "notCalled"
  /\ \E in \in TaskInputs :
       tasks' = [tasks EXCEPT ![t] =
                   [NotCalled EXCEPT !.pc = "line102",
                                     !.method = in.method, !.url = in.url, !.queryParams = in.queryParams,
                                     !.now = in.now, !.random1 = in.random1, !.random2 = in.random2,
                                     !.oauthParams = OAuthParams(in.now, in.random1, in.random2)]]
  /\ UNCHANGED <<moduleVars, call, runVars, app, slugCall, helper>>

\* Line 102: allParams.
TaskSpread(t) ==
  /\ tasks[t].pc = "line102"
  /\ tasks' = [tasks EXCEPT ![t].pc = "line105",
                            ![t].allParams = AllParams(TaskOAuthParams(t), tasks[t].queryParams)]
  /\ UNCHANGED <<moduleVars, call, runVars, app, slugCall, helper>>

\* Lines 105-106: the signature, put into oauthParams.
TaskSign(t) ==
  /\ tasks[t].pc = "line105"
  /\ \E signature \in {generateOAuthSignature(tasks[t].method, tasks[t].url, tasks[t].allParams,
                                              X_API_SECRET, X_ACCESS_TOKEN_SECRET).signature} :
       tasks' = [tasks EXCEPT ![t].pc = "line109",
                              ![t].signature = signature,
                              ![t].oauthParams = Put(TaskOAuthParams(t), oauth_signature, signature)]
  /\ UNCHANGED <<moduleVars, call, runVars, app, slugCall, helper>>

\* Lines 109-114: the header, returned.
TaskReturn(t) ==
  /\ tasks[t].pc = "line109"
  /\ tasks' = [tasks EXCEPT ![t].pc = "returned",
                            ![t].authHeader = AuthHeader(TaskOAuthParams(t))]
  /\ UNCHANGED <<moduleVars, call, runVars, app, slugCall, helper>>

ConcurrentInit ==
  /\ Loaded
  /\ tasks = [t \in 1..NumTasks |-> NotCalled]
  /\ slugCall = NoSlug
  /\ helper = NoHelper

\* Any invocation takes its next step.
ConcurrentNext ==
  \E t \in 1..NumTasks :
    \/ TaskBegin(t)
    \/ TaskSpread(t)
    \/ TaskSign(t)
    \/ TaskReturn(t)

ConcurrentSpec == ConcurrentInit /\ [][ConcurrentNext]_vars

(***************************************************************************)
(* generateSlug called with a text                                         *)
(***************************************************************************)
\* The script is loaded and generateSlug is about to be called with a text.
SlugInit ==
  /\ Loaded
  /\ X_API_KEY = RunCredentials.key
  /\ tasks = <<>>
  /\ \E text \in SlugTexts : slugCall = [NoSlug EXCEPT !.text = text]
  /\ helper = NoHelper

SlugNext == CallGenerateSlug

SlugSpec == SlugInit /\ [][SlugNext]_vars

(***************************************************************************)
(* A run of the OAuth 2.0 token helper                                     *)
(***************************************************************************)
\* X_CLIENT_ID, X_CLIENT_SECRET and the first argument of the command line.
HelperEnvs ==
  {[X_CLIENT_ID |-> id, X_CLIENT_SECRET |-> secret, argv2 |-> arg] :
     id \in {undefined, <<"i", "d", "1">>}, secret \in {undefined, <<>>, <<"s", "e", "c">>},
     arg \in {undefined, <<"i", "d", "2">>}}

HelperInit ==
  /\ Loaded
  /\ X_API_KEY = RunCredentials.key
  /\ tasks = <<>>
  /\ slugCall = NoSlug
  /\ \E e \in HelperEnvs : helper = [NoHelper EXCEPT !.env = e]

HelperNext ==
  \/ HelperLoadExit
  \/ HelperListen
  \/ OtherPathRequest
  \/ CallbackRejected
  \/ CallbackExchangeBegins
  \/ CallbackExchangeEnds

HelperSpec == HelperInit /\ [][HelperNext]_vars

(***************************************************************************)
(* Reading a header and a signature base string back                       *)
(***************************************************************************)
\* The places where sep starts in s.
SepStarts(s, sep) ==
  {i \in 1..(Len(s) - Len(sep) + 1) : \A j \in DOMAIN sep : s[i + j - 1] = sep[j]}

\* s cut at every occurrence of sep (occurrences do not overlap).
Split(s, sep) ==
  LET at == SepStarts(s, sep)
      n == Cardinality(at)
      pos(k) == CHOOSE p \in at : Cardinality({q \in at : q < p}) = k - 1
  IN  [k \in 1..(n + 1) |->
         SubSeq(s, IF k = 1 THEN 1 ELSE pos(k - 1) + Len(sep),
                   IF k = n + 1 THEN Len(s) ELSE pos(k) - 1)]

HexValue(c) == (CHOOSE i \in DOMAIN HexDigits : HexDigits[i] = c) - 1
IsUpperHex(c) == c \in Range(HexDigits)

\* Every '%' of s is followed by two uppercase hexadecimal digits.
WellEncoded(s) ==
  \A i \in DOMAIN s :
    s[i] = "%" => i + 2 <= Len(s) /\ IsUpperHex(s[i + 1]) /\ IsUpperHex(s[i + 2])

\* Percent-decoding of a well-encoded string: %XX is the character of code XX.
PercentDecode(s) ==
  Concat([i \in DOMAIN s |->
            IF s[i] = "%" THEN <<FromCharCode(16 * HexValue(s[i + 1]) + HexValue(s[i + 2]))>>
            ELSE IF (i > 1 /\ s[i - 1] = "%") \/ (i > 2 /\ s[i - 2] = "%") THEN <<>>
            ELSE <<s[i]>>])

\* The key="value" pairs of a header, as <<key, value>>, value still encoded.
HeaderBody(header) == SubSeq(header, Len(OAuthPrefix) + 1, Len(header))
HeaderItems(header) == Split(HeaderBody(header), <<",", " ">>)
ItemWellFormed(item) ==
  LET halves == Split(item, <<"=", "\"">>)
  IN  /\ Len(halves) = 2
      /\ item[Len(item)] = "\""
      /\ "\"" \notin Range(SubSeq(halves[2], 1, Len(halves[2]) - 1))
HeaderPairs(header) ==
  LET items == HeaderItems(header)
  IN  [i \in DOMAIN items |->
         LET halves == Split(items[i], <<"=", "\"">>)
         IN  <<halves[1], SubSeq(halves[2], 1, Len(halves[2]) - 1)>>]
HeaderKeys(header) == ObjectKeys(HeaderPairs(header))

StartsWith(s, prefix) == Len(s) >= Len(prefix) /\ SubSeq(s, 1, Len(prefix)) = prefix

\* a before b byte by byte, a proper prefix first.
RECURSIVE ByteLess(_, _)
ByteLess(a, b) ==
  IF b = <<>> THEN FALSE
  ELSE IF a = <<>> THEN TRUE
  ELSE IF Head(a) = Head(b) THEN ByteLess(Tail(a), Tail(b))
  ELSE CharCode[Head(a)] < CharCode[Head(b)]

Ascending(names) == \A i \in 1..(Len(names) - 1) : ByteLess(names[i], names[i + 1])

\* The parameter names step 1 generates.
GeneratedNames ==
  {oauth_consumer_key, oauth_token, oauth_signature_method, oauth_timestamp, oauth_nonce, oauth_version}

\* The orders in which the entries of an object may have been inserted.
InsertionOrders(o) ==
  {[i \in DOMAIN o |-> o[f[i]]] :
     f \in {g \in [DOMAIN o -> DOMAIN o] : \A i, j \in DOMAIN o : g[i] = g[j] => i = j}}

(***************************************************************************)
(* C1                                                                      *)
(***************************************************************************)
SixKeys ==
  <<oauth_consumer_key, oauth_nonce, oauth_signature, oauth_signature_method,
    oauth_timestamp, oauth_version>>

SevenKeys ==
  <<oauth_consumer_key, oauth_nonce, oauth_signature, oauth_signature_method,
    oauth_timestamp, oauth_token, oauth_version>>

HeaderWellFormed(header) ==
  LET items == HeaderItems(header)
  IN  /\ StartsWith(header, OAuthPrefix)
      /\ \A i \in DOMAIN items : ItemWellFormed(items[i])

\* C1 as stated: for every method, URL and queryParams, the header returned
\* by createOAuthHeader begins with 'OAuth ' and holds exactly six
\* comma-separated key="value" pairs, with the keys oauth_consumer_key,
\* oauth_nonce, oauth_signature, oauth_signature_method, oauth_timestamp,
\* oauth_version in ascending order.
C1_SixPairs ==
  call.returned =>
    /\ HeaderWellFormed(call.authHeader)
    /\ HeaderKeys(call.authHeader) = SixKeys
    /\ Ascending(SixKeys)

\* C1 amended: the header begins with 'OAuth ' and holds exactly seven
\* comma-separated key="value" pairs, with the keys oauth_consumer_key,
\* oauth_nonce, oauth_signature, oauth_signature_method, oauth_timestamp,
\* oauth_token, oauth_version in ascending order, also for the empty
\* queryParams.
C1_SevenPairs ==
  call.returned =>
    /\ HeaderWellFormed(call.authHeader)
    /\ HeaderKeys(call.authHeader) = SevenKeys
    /\ Ascending(SevenKeys)

C1_Witness == call.returned /\ call.queryParams = <<>>

(***************************************************************************)
(* C2                                                                      *)
(***************************************************************************)
\* C2: the header is made of the OAuth protocol parameters only: each of
\* the six generated parameters and oauth_signature appears exactly once,
\* sorted by name; no name of queryParams appears in the header; and
\* oauth_signature is put into the OAuth parameter set, never into
\* queryParams.
C2_OAuthParametersOnly ==
  call.returned =>
    LET keys == HeaderKeys(call.authHeader)
    IN  /\ Len(keys) = 7
        /\ Range(keys) = GeneratedNames \cup {oauth_signature}
        /\ Ascending(keys)
        /\ \A i \in DOMAIN call.queryParams : call.queryParams[i][1] \notin Range(keys)
        /\ HasKey(call.oauthParams, oauth_signature)
        /\ ~HasKey(call.queryParams, oauth_signature)

(***************************************************************************)
(* C3                                                                      *)
(***************************************************************************)
Collides(queryParams) == \E i \in DOMAIN queryParams : queryParams[i][1] \in GeneratedNames

\* C3: when a name of queryParams is the name of an OAuth protocol
\* parameter, createOAuthHeader fails and returns no header; it never
\* returns a header that lists, for an OAuth parameter, another value than
\* the one that was signed.
C3_CollisionFails ==
  call.returned =>
    /\ ~Collides(call.queryParams)
    /\ \A name \in GeneratedNames :
         Get(call.oauthParams, name) = Get(call.allParams, name)

(***************************************************************************)
(* C4                                                                      *)
(***************************************************************************)
Unset(v) == v = undefined \/ Len(v) = 0

AnyCredentialUnset ==
  \/ Unset(env.X_API_KEY)
  \/ Unset(env.X_API_SECRET)
  \/ Unset(env.X_ACCESS_TOKEN)
  \/ Unset(env.X_ACCESS_TOKEN_SECRET)

\* C4: if one of the four credentials is unset or empty, the run fails with
\* exit code 1 and signing is never attempted: createOAuthHeader is not
\* called, no HTTP request is issued and no file is written.
C4_NoSigningWithoutCredentials ==
  AnyCredentialUnset =>
    /\ pc \in {"load", "exited"}
    /\ pc = "exited" => exitStatus = "exit1"
    /\ signerCalls = <<>>
    /\ requests = <<>>
    /\ writes = <<>>

C4_Witness ==
  /\ pc = "exited"
  /\ exitStatus = "exit1"
  /\ env.X_API_KEY # undefined /\ env.X_API_KEY # <<>>
  /\ env.X_ACCESS_TOKEN_SECRET = <<>>

(***************************************************************************)
(* C5                                                                      *)
(***************************************************************************)
\* The methods of HTTP (RFC 9110, and PATCH).
HttpVerbs ==
  {GET, POST, <<"H", "E", "A", "D">>, <<"P", "U", "T">>, <<"D", "E", "L", "E", "T", "E">>, <<"P", "A", "T", "C", "H">>, <<"O", "P", "T", "I", "O", "N", "S">>, <<"T", "R", "A", "C", "E">>, <<"C", "O", "N", "N", "E", "C", "T">>}

\* C5: createOAuthHeader fails with UnsupportedMethod, and returns no
\* header, whenever its method is not a recognized HTTP verb.
C5_UnsupportedMethodFails ==
  call.returned => call.method \in HttpVerbs

(***************************************************************************)
(* C6                                                                      *)
(***************************************************************************)
Rfc3986Unreserved == AlphaNum \cup {"-", ".", "_", "~"}

\* Percent-encoding by the unreserved-character rule of RFC 3986.
Rfc3986Encode(s) ==
  Concat([i \in DOMAIN s |->
            IF s[i] \in Rfc3986Unreserved THEN <<s[i]>>
            ELSE <<"%", HexDigits[(CharCode[s[i]] \div 16) + 1], HexDigits[(CharCode[s[i]] % 16) + 1]>>])

\* The name=value items of the parameter string inside a signature base string.
BaseStringParts(base) == Split(base, <<"&">>)
ParameterItems(parts) == Split(PercentDecode(parts[3]), <<"&">>)

\* C6: the percent-encoding the signer uses, for every name and value over
\* printable ASCII, leaves exactly A-Z a-z 0-9 - . _ ~ as they are and
\* writes every other character as %XX in uppercase hexadecimal: in the
\* header values, in the signing key and in the signed parameter string.
C6_Rfc3986Encoding ==
  call.returned =>
    /\ LET pairs == HeaderPairs(call.authHeader)
       IN  \A i \in DOMAIN pairs :
             pairs[i][2] = Rfc3986Encode(Get(call.oauthParams, PercentDecode(pairs[i][1])))
    /\ call.signingKey = Rfc3986Encode(X_API_SECRET) \o <<"&">> \o Rfc3986Encode(X_ACCESS_TOKEN_SECRET)
    /\ Range(ParameterItems(BaseStringParts(call.signatureBaseString))) =
         {Rfc3986Encode(call.allParams[i][1]) \o <<"=">> \o Rfc3986Encode(call.allParams[i][2]) :
            i \in DOMAIN call.allParams}

(***************************************************************************)
(* C7                                                                      *)
(***************************************************************************)
\* The <<name, value>> pairs of the parameter string, decoded.
SignedPairs(items) ==
  [i \in DOMAIN items |->
     LET halves == Split(items[i], <<"=">>)
     IN  <<PercentDecode(halves[1]), PercentDecode(halves[2])>>]

\* C7: the signature base string is METHOD & encode(url) & encode(P), P the
\* combined parameter set (the OAuth protocol parameters and queryParams),
\* ordered by name, byte-wise ascending, each entry written
\* encode(name)=encode(value), the entries joined with '&'.
C7_SignatureBaseString ==
  call.returned =>
    \A parts \in {BaseStringParts(call.signatureBaseString)} :
    \A items \in {IF Len(parts) = 3 THEN ParameterItems(parts) ELSE <<>>} :
    \A pairs \in {SignedPairs(items)} :
        /\ Len(parts) = 3
        /\ parts[1] = call.method
        /\ WellEncoded(parts[2]) /\ PercentDecode(parts[2]) = call.url
        /\ WellEncoded(parts[3])
        /\ \A i \in DOMAIN items :
             /\ Len(Split(items[i], <<"=">>)) = 2
             /\ WellEncoded(items[i])
             /\ items[i] = encodeURIComponent(pairs[i][1]) \o <<"=">> \o encodeURIComponent(pairs[i][2])
        /\ Ascending(ObjectKeys(pairs))
        /\ Range(ObjectKeys(pairs)) =
             GeneratedNames \cup Range(ObjectKeys(call.queryParams))
        /\ \A i \in DOMAIN call.queryParams : call.queryParams[i] \in Range(pairs)
        /\ \A name \in GeneratedNames \ Range(ObjectKeys(call.queryParams)) :
             <<name, Get(call.oauthParams, name)>> \in Range(pairs)

\* A parameter that sorts before the OAuth parameters was inserted after them.
C7_Witness ==
  /\ call.returned
  /\ HasKey(call.queryParams, max_results)
  /\ Len(call.queryParams) = 2

(***************************************************************************)
(* C8                                                                      *)
(***************************************************************************)
\* C8: the signature in the header is HMAC-SHA1, base64-encoded, of the
\* signature base string under the key encode(consumer secret) & encode(
\* access-token secret): the consumer secret first, the token secret second.
C8_SigningKeyAndSignature ==
  call.returned =>
    LET keyParts == Split(call.signingKey, <<"&">>)
    IN  /\ Len(keyParts) = 2
        /\ WellEncoded(keyParts[1]) /\ PercentDecode(keyParts[1]) = X_API_SECRET
        /\ WellEncoded(keyParts[2]) /\ PercentDecode(keyParts[2]) = X_ACCESS_TOKEN_SECRET
        /\ call.signature = HmacSha1Base64(call.signingKey, call.signatureBaseString)
        /\ LET pairs == HeaderPairs(call.authHeader)
           IN  \E i \in DOMAIN pairs :
                 /\ pairs[i][1] = oauth_signature
                 /\ WellEncoded(pairs[i][2])
                 /\ PercentDecode(pairs[i][2]) = call.signature

C8_Witness == call.returned /\ X_API_SECRET # X_ACCESS_TOKEN_SECRET /\ "&" \in Range(X_API_SECRET)

(***************************************************************************)
(* C9                                                                      *)
(***************************************************************************)
\* C9: the signature is a function of the method, the URL, the parameter
\* set, the two secrets, the timestamp and the nonce: a second computation
\* with the same of each, the parameters inserted in any other order, gives
\* the same signature and the same header.
C9_InsertionOrderIrrelevant ==
  call.returned =>
    \A queryParams \in InsertionOrders(call.queryParams) :
      LET again == createOAuthHeader(call.method, call.url, queryParams,
                                     call.now, call.random1, call.random2)
      IN  /\ again.signature = call.signature
          /\ again.authHeader = call.authHeader

C9_Witness ==
  /\ call.returned
  /\ Len(call.queryParams) = 2
  /\ StrLess(call.queryParams[2][1], call.queryParams[1][1])

(***************************************************************************)
(* C10                                                                     *)
(***************************************************************************)
\* C10: for every OAuth parameter, percent-decoding what stands between the
\* quotes of its key="value" pair in the header gives the parameter's value.
C10_HeaderValuesRoundTrip ==
  call.returned =>
    LET pairs == HeaderPairs(call.authHeader)
    IN  /\ Len(pairs) = Len(call.oauthParams)
        /\ \A i \in DOMAIN pairs :
             /\ WellEncoded(pairs[i][2])
             /\ HasKey(call.oauthParams, pairs[i][1])
             /\ PercentDecode(pairs[i][2]) = Get(call.oauthParams, pairs[i][1])

\* A consumer key with a space, a quote, a comma, a slash and a plus sign;
\* a token with a percent sign.
C10_Witness ==
  /\ call.returned
  /\ {" ", "\"", ","} \subseteq Range(X_API_KEY)
  /\ "%" \in Range(X_ACCESS_TOKEN)


(***************************************************************************)
(* C11                                                                     *)
(***************************************************************************)
\* What createOAuthHeader gives for the arguments and draws a call recorded.
Recomputed(c) == createOAuthHeader(c.method, c.url, c.queryParams, c.now, c.random1, c.random2)

\* Request i was sent as call j signed it: same method, same URL and
\* parameters.
SentAsSigned(i, j) ==
  /\ requests[i].method = signerCalls[j].method
  /\ requests[i].url = FullUrl(signerCalls[j].url, signerCalls[j].queryParams)

\* C11: every request of a run carries the header of a createOAuthHeader
\* call of its own, made with the request's method, URL and parameters and
\* with a clock value and random strings drawn for that call; a header is
\* never sent with a request whose method, URL or parameters differ from
\* those it was signed for.
C11_HeaderPerRequest ==
  /\ Len(requests) = Len(signerCalls)
  /\ \A i \in DOMAIN requests :
       /\ requests[i].Authorization = Recomputed(signerCalls[i]).authHeader
       /\ SentAsSigned(i, i)
       /\ \A j \in DOMAIN signerCalls :
            requests[i].Authorization = signerCalls[j].authHeader => SentAsSigned(i, j)

C11_Witness ==
  /\ Len(requests) = 2
  /\ requests[1].Authorization # requests[2].Authorization
  /\ signerCalls[1].now # signerCalls[2].now

(***************************************************************************)
(* C12                                                                     *)
(***************************************************************************)
\* Decoding of application/x-www-form-urlencoded text: '+' is a space.
FormDecode(s) == PercentDecode([i \in DOMAIN s |-> IF s[i] = "+" THEN " " ELSE s[i]])

\* The (name, value) pairs of a query string.
QueryPairs(query) ==
  LET items == Split(query, <<"&">>)
  IN  {<<FormDecode(Split(items[i], <<"=">>)[1]), FormDecode(Split(items[i], <<"=">>)[2])>> :
         i \in DOMAIN items}

\* C12: for each request of a run, the pairs passed to createOAuthHeader as
\* queryParams are exactly the pairs of the query string of the fetched
\* URL, and the signed URL is the fetched URL without its query string.
C12_SignedParamsAreSent ==
  /\ Len(requests) = Len(signerCalls)
  /\ \A i \in DOMAIN requests :
       \A parts \in {Split(requests[i].url, <<"?">>)} :
         /\ Len(parts) = 2
         /\ parts[1] = signerCalls[i].url
         /\ QueryPairs(parts[2]) = Range(signerCalls[i].queryParams)

C12_Witness ==
  /\ Len(requests) = 2
  /\ Len(signerCalls[2].queryParams) = 5
  /\ <<max_results, <<"5">>>> \in QueryPairs(Split(requests[2].url, <<"?">>)[2])

(***************************************************************************)
(* C13                                                                     *)
(***************************************************************************)
\* C13: the oauth_nonce of an invocation consists of ASCII letters and
\* digits only and is at least 20 characters long, whatever the random
\* source returned.
C13_NonceShape ==
  call.returned =>
    \A nonce \in {Get(call.oauthParams, oauth_nonce)} :
      /\ Range(nonce) \subseteq AlphaNum
      /\ Len(nonce) >= 20

(***************************************************************************)
(* C16                                                                     *)
(***************************************************************************)
\* C16: when MAX_BOOKMARKS is not set in the environment, the liked-tweets
\* request is signed and sent with max_results = 5.
C16_DefaultMaxResults ==
  (env.MAX_BOOKMARKS = undefined /\ Len(requests) = 2) =>
    /\ Get(signerCalls[2].queryParams, max_results) = <<"5">>
    /\ <<max_results, <<"5">>>> \in QueryPairs(Split(requests[2].url, <<"?">>)[2])

(***************************************************************************)
(* C17                                                                     *)
(***************************************************************************)
IsUserLookup(request) == StartsWith(request.url, UserLookupPrefix)
IsLikedTweets(request) ==
  /\ ~IsUserLookup(request)
  /\ \E id \in UserIds \cup {userId} :
       StartsWith(request.url, (UsersPrefix \o id \o LikedTweetsSuffix) \o <<"?">>)

\* The requests so far: at most a user lookup followed by a liked-tweets
\* request for the user id the lookup returned.
RequestsInOrder ==
  /\ Len(requests) <= 2
  /\ Len(requests) >= 1 => IsUserLookup(requests[1])
  /\ Len(requests) = 2 =>
       /\ userId # undefined
       /\ StartsWith(requests[2].url, (UsersPrefix \o userId \o LikedTweetsSuffix) \o <<"?">>)
  /\ Len(requests) < 2 => userId = undefined

\* A step that issues a request issues one: the user lookup first, the
\* liked-tweets request in the step in which the lookup returns its id.
RequestStep ==
  requests' # requests =>
    /\ Len(requests') = Len(requests) + 1
    /\ SubSeq(requests', 1, Len(requests)) = requests
    /\ \/ pc = "main" /\ requests = <<>> /\ IsUserLookup(requests'[1])
       \/ pc = "awaitUser" /\ Len(requests) = 1 /\ userId' \in UserIds /\ IsLikedTweets(requests'[2])

\* A step that makes a directory or writes a file is the one that takes the
\* parsed liked-tweets response, with tweets in it, and no request follows.
WriteStep ==
  (writes' # writes \/ dirs' # dirs \/ postsTs' # postsTs) =>
    /\ pc = "awaitLikes" /\ Len(requests) = 2
    /\ likesData'.hasData /\ likesData'.data # <<>>
    /\ pc' = "exited"

\* C17: a run issues at most one user lookup and at most one liked-tweets
\* request, the second only after the first returned a user id and for that
\* id, and writes files only after the liked-tweets response was parsed.
C17_LinearRun == [](RequestsInOrder) /\ [][RequestStep /\ WriteStep]_vars

C17_Witness ==
  /\ pc = "exited"
  /\ Len(requests) = 2
  /\ userId = <<"7">>
  /\ Len(writes) >= 2


(***************************************************************************)
(* C14                                                                     *)
(***************************************************************************)
\* The credentials of the environment that have a value.
SetCredentials ==
  {env.X_API_KEY, env.X_API_SECRET, env.X_ACCESS_TOKEN, env.X_ACCESS_TOKEN_SECRET} \ {undefined, <<>>}

\* C14: whatever the run, with DEBUG or without, ended well or not, nothing
\* printed to the console contains the whole value of one of the four
\* credentials.
C14_NoCredentialInConsole ==
  \A i \in DOMAIN console : \A credential \in SetCredentials : ~Includes(console[i], credential)

\* A DEBUG run with all four credentials that went through both requests,
\* wrote a markdown file and ended in the catch of main.
C14_Witness ==
  /\ DEBUG
  /\ Cardinality(SetCredentials) = 4
  /\ pc = "exited"
  /\ exitStatus = "exit1"
  /\ Len(requests) = 2
  /\ Len(writes) >= 1
  /\ \E i \in DOMAIN console : Includes(console[i], <<"E", "r", "r", "o", "r", " ", "S", "t", "a", "c", "k", ":", " ">>)
  /\ \E i \in DOMAIN console : Includes(console[i], <<"X", "_", "A", "P", "I", "_", "K", "E", "Y", ":", " ", "S", "e", "t", " ", "(", "6", " ", "c", "h", "a", "r", "s", ")">>)


(***************************************************************************)
(* C18                                                                     *)
(***************************************************************************)
\* The text of posts.ts the run started from, and the tweets it made posts of.
TextAtStart == IF atStart.postsTs.exists THEN atStart.postsTs.content ELSE DefaultPostsContent
PostsOfRun ==
  LET fresh == FreshTweets(likesData.data, ExistingPosts(atStart.postsTs))
  IN  [i \in DOMAIN fresh |-> NewPost(fresh[i])]

\* A field of an entry as it is to stand in posts.ts.
FieldText(name, value) == Concat(<<name, <<":", " ", "'">>, EscapeQuotes(value), <<"'", ",">>>>)

\* The written text keeps the imports and the entries it had.
KeepsWhatWasThere(old, new) ==
  /\ StartsAt(new, 1, ExistingImports(old))
  /\ Includes(new, Concat(<<<<"c", "o", "n", "s", "t", " ", "p", "o", "s", "t", "s", " ", "=", " ", "[", "\n">>, Trim(ArrayMatch(RestOfContent(old)).group1)>>))

\* The written text has the title, author and excerpt of each new post.
HasNewFields(new, posts) ==
  \A i \in DOMAIN posts :
    /\ Includes(new, FieldText(<<"t", "i", "t", "l", "e">>, posts[i].title))
    /\ Includes(new, FieldText(<<"a", "u", "t", "h", "o", "r">>, posts[i].author))
    /\ Includes(new, FieldText(<<"e", "x", "c", "e", "r", "p", "t">>, posts[i].excerpt))

\* C18: a posts.ts the run writes keeps the imports and the entries that
\* were there, and holds each new entry's title, author and excerpt as they
\* are, apart from escaped single quotes.
C18_OnlyAppends ==
  \A i \in DOMAIN writes :
    writes[i].path = PostsDataPath =>
      /\ KeepsWhatWasThere(TextAtStart, writes[i].content)
      /\ HasNewFields(writes[i].content, PostsOfRun)


(***************************************************************************)
(* C20                                                                     *)
(***************************************************************************)
\* How many entries of the text have this id.
IdOccurrences(s, slug) ==
  Cardinality({i \in DOMAIN s : StartsAt(s, i, Concat(<<<<"i", "d", ":", " ", "'">>, slug, <<"'">>>>))})

\* A fetched tweet whose slug is an id of posts.ts is skipped: no markdown
\* file is written for it and no entry is added.
ExistingAreSkipped ==
  \A i \in DOMAIN likesData.data :
    SlugOf(likesData.data[i]) \in ExistingPosts(atStart.postsTs) =>
      /\ \A w \in DOMAIN writes : writes[w].path # MdPath(SlugOf(likesData.data[i]))
      /\ IdOccurrences(postsTs.content, SlugOf(likesData.data[i])) =
           IdOccurrences(atStart.postsTs.content, SlugOf(likesData.data[i]))

\* No id is in posts.ts more than once.
NoIdTwice ==
  \A slug \in ExistingPosts(postsTs) : IdOccurrences(postsTs.content, slug) <= 1

\* The liked-tweets response of this run is the one of the successful run
\* before it.
SameResponseAgain ==
  /\ atStart.previous.ran
  /\ Len(responses) = 2
  /\ responses[2] = OkResponse(atStart.previous.body)

\* C20: a tweet whose slug is already an id of posts.ts is skipped, no id
\* is in posts.ts more than once after a run, and a run that gets the
\* response of the successful run before it writes no file.
C20_NoDuplicates ==
  /\ ExistingAreSkipped
  /\ NoIdTwice
  /\ SameResponseAgain => writes = <<>>


(***************************************************************************)
(* C15                                                                     *)
(***************************************************************************)
\* The header the invocation returns when no other invocation is made.
AloneHeader(task) ==
  createOAuthHeader(task.method, task.url, task.queryParams, task.now, task.random1, task.random2).authHeader

\* Every returned header is the one of the invocation alone.
ReturnsAsAlone ==
  \A t \in DOMAIN tasks : tasks[t].pc = "returned" => tasks[t].authHeader = AloneHeader(tasks[t])

\* A step leaves the module's constants and the other invocations' locals
\* as they are.
StepIsLocal ==
  /\ moduleVars' = moduleVars
  /\ \A t \in DOMAIN tasks : tasks'[t] # tasks[t] => \A u \in DOMAIN tasks \ {t} : tasks'[u] = tasks[u]

\* C15: however invocations of createOAuthHeader are interleaved, each
\* returns the header it returns alone with the same clock value and random
\* draws, and no step of one changes what another reads.
C15_InterleavingsReturnAsAlone == [](ReturnsAsAlone) /\ [][StepIsLocal]_vars

\* One invocation has returned while another, with other arguments, is
\* between its signature and its header.
C15_Witness ==
  /\ tasks # <<>>
  /\ tasks[1].pc = "line109"
  /\ tasks[2].pc = "returned"
  /\ tasks[1].queryParams # tasks[2].queryParams
  /\ tasks[2].authHeader # AuthHeader(tasks[1].oauthParams)


(***************************************************************************)
(* C19                                                                     *)
(***************************************************************************)
\* C19: the display app never issues a request, is never loading and keeps
\* its list of bookmarks, and every call of fetchBookmarks, whatever the
\* inputs hold, leaves the message about browser-based fetching as the
\* error and nothing else changed.
C19_FetchBookmarksOnlySetsError ==
  /\ [](app.fetches = <<>> /\ ~app.loading /\ app.bookmarks = Mounted.bookmarks)
  /\ [][fetchBookmarks => app' = [app EXCEPT !.error = UnsupportedMessage]]_vars

\* fetchBookmarks was called with a bearer token, another username and
\* another number typed in.
C19_Witness ==
  /\ app.error = UnsupportedMessage
  /\ app.bearerToken # <<>>
  /\ app.username = <<"j", "a", "c", "k">>
  /\ app.maxBookmarks = 100



(***************************************************************************)
(* C21                                                                     *)
(***************************************************************************)
\* The run printed the line of line 483.
SuccessLogged == \E i \in DOMAIN console : Includes(console[i], <<"S", "u", "c", "c", "e", "s", "s", "f", "u", "l", "l", "y", " ", "c", "r", "e", "a", "t", "e", "d", " ">>)

\* The markdown file of this post was written by the run.
MarkdownWritten(post) == \E w \in DOMAIN writes : writes[w].path = MdPath(post.id)

\* posts.ts has one entry with this post's id, and its import line.
EntryAndImport(post) ==
  /\ postsTs.exists
  /\ IdOccurrences(postsTs.content, post.id) = 1
  /\ Includes(postsTs.content, NewImports(<<post>>))

\* C21: when the run printed that it successfully created N posts, each of
\* the N tweets has its markdown file, exactly one entry with its id in
\* posts.ts and the import line of that entry; and after a run that ended
\* normally no markdown file it wrote is without its entry in posts.ts.
C21_FilesAndEntriesTogether ==
  /\ SuccessLogged =>
       \A i \in DOMAIN PostsOfRun : MarkdownWritten(PostsOfRun[i]) /\ EntryAndImport(PostsOfRun[i])
  /\ (pc = "exited" /\ exitStatus = "exit0") =>
       \A i \in DOMAIN PostsOfRun :
         MarkdownWritten(PostsOfRun[i]) => PostsOfRun[i].id \in ExistingPosts(postsTs)



(***************************************************************************)
(* C22                                                                     *)
(***************************************************************************)
\* One of the responses had a status that is not OK.
NonOkResponse == \E i \in DOMAIN responses : ~responses[i].ok

\* The run made no directory and wrote no file.
NothingCreated ==
  /\ dirs = atStart.dirs
  /\ writes = <<>>
  /\ postsTs = atStart.postsTs

\* The user lookup failed: its response was not OK, or the run ended
\* without a user id.
UserLookupFailed ==
  \/ Len(responses) >= 1 /\ ~responses[1].ok
  \/ pc = "exited" /\ Len(requests) >= 1 /\ userId = undefined

\* C22: when one of the two requests is answered with a status that is not
\* OK, the run ends with exit code 1 and has made no directory and written
\* no markdown file and no posts.ts; and when the user lookup fails, the
\* liked-tweets request is not issued.
C22_NonOkEndsTheRun ==
  /\ NonOkResponse => pc = "exited" /\ exitStatus = "exit1" /\ NothingCreated
  /\ UserLookupFailed => Len(requests) = 1

\* The liked-tweets request of a DEBUG run that found no directory was
\* answered with 429.
C22_Witness ==
  /\ DEBUG
  /\ atStart.dirs = {}
  /\ Len(responses) = 2
  /\ responses[1].ok
  /\ responses[2].status = 429
  /\ pc = "exited"



(***************************************************************************)
(* C23                                                                     *)
(***************************************************************************)
\* The liked-tweets response was OK and its body has no data field or an
\* empty data list.
NoTweetsInResponse ==
  /\ Len(responses) = 2
  /\ responses[2].ok
  /\ ~responses[2].body.hasData \/ responses[2].body.data = <<>>

\* The run fetched tweets and each of them was in posts.ts at the start.
AllFetchedExist ==
  /\ pc = "exited"
  /\ likesData.hasData
  /\ likesData.data # <<>>
  /\ \A i \in DOMAIN likesData.data : SlugOf(likesData.data[i]) \in ExistingPosts(atStart.postsTs)

\* C23: a liked-tweets response without a data field or with an empty data
\* list, with includes.users or without, ends the run normally with no
\* directory made and no file written; and when every fetched tweet is
\* already in posts.ts, posts.ts is not written.
C23_NothingToDo ==
  /\ NoTweetsInResponse => pc = "exited" /\ exitStatus = "exit0" /\ NothingCreated
  /\ AllFetchedExist =>
       /\ postsTs = atStart.postsTs
       /\ \A w \in DOMAIN writes : writes[w].path # PostsDataPath



(***************************************************************************)
(* C24                                                                     *)
(***************************************************************************)
\* The users the liked-tweets response included.
IncludedUsers ==
  IF Len(responses) = 2 /\ responses[2].ok /\ responses[2].body.hasUsers
  THEN Range(responses[2].body.users)
  ELSE {}

\* The tweet has the username and name of an included user with the id of
\* its author, and its url is made of that username and the tweet's id.
CarriesItsAuthor(tweet) ==
  \E user \in IncludedUsers :
    /\ user.id = tweet.author_id
    /\ tweet.author_username = user.username
    /\ tweet.author_name = user.name
    /\ tweet.url = Concat(<<XPrefix, user.username, StatusInfix, tweet.id>>)

\* C24: each tweet fetchXLikedTweets returned carries the username and the
\* name of the included user whose id is its author_id, its url is
\* https://x.com/<that username>/status/<its id>, and the url does not have
\* the text undefined in place of a username.
C24_TweetsCarryTheirAuthor ==
  \A i \in DOMAIN likesData.data :
    /\ CarriesItsAuthor(likesData.data[i])
    /\ likesData.data[i].url # undefined
    /\ ~Includes(likesData.data[i].url, UndefinedText)



(***************************************************************************)
(* C26                                                                     *)
(***************************************************************************)
\* C26: for every text, what generateSlug returns has at most 50
\* characters, all of them a-z, 0-9 or a hyphen, has no hyphen at its start
\* or at its end and no two hyphens in a row.
C26_SlugShape ==
  slugCall.called =>
    /\ Len(slugCall.result) <= 50
    /\ \A i \in DOMAIN slugCall.result : slugCall.result[i] \in SlugChars \cup {"-"}
    /\ slugCall.result # <<>> => slugCall.result[1] # "-" /\ slugCall.result[Len(slugCall.result)] # "-"
    /\ \A i \in 1..(Len(slugCall.result) - 1) : ~(slugCall.result[i] = "-" /\ slugCall.result[i + 1] = "-")



(***************************************************************************)
(* C25                                                                     *)
(***************************************************************************)
\* The request is a /callback request with a code and the state generated
\* at startup.
GoodCallback(req) ==
  /\ req.pathname = CallbackPath
  /\ ~NoCode(SearchParamsGet(req.query, CodeParam))
  /\ SearchParamsGet(req.query, StateParam) = helper.state

\* Each code posted to the token endpoint is the code of such a request.
CodesOfGoodCallbacks ==
  \A t \in DOMAIN helper.tokenRequests :
    /\ GoodCallback(helper.requests[helper.tokenRequests[t].request])
    /\ helper.tokenRequests[t].code =
         SearchParamsGet(helper.requests[helper.tokenRequests[t].request].query, CodeParam)

\* A /callback request without a code or with another state is answered
\* with 400 and nothing is posted for it.
OthersGet400 ==
  \A i \in DOMAIN helper.requests :
    (helper.requests[i].pathname = CallbackPath /\ ~GoodCallback(helper.requests[i])) =>
      /\ helper.requests[i].status = 400
      /\ \A t \in DOMAIN helper.tokenRequests : helper.tokenRequests[t].request # i

\* Once a /callback request was answered, with 400, 200 or 500, the server
\* is closed.
ClosedAfterCallback ==
  (\E i \in DOMAIN helper.requests :
     helper.requests[i].pathname = CallbackPath /\ helper.requests[i].status # 0) =>
    helper.pc = "closed"

\* C25: the helper posts a code to the token endpoint only for a /callback
\* request that has a code and the state generated at startup; a /callback
\* request without a code or with another state gets 400 and no token
\* request; the server is closed once the first /callback request was
\* handled, whatever the outcome; and there is at most one token exchange
\* in a run.
C25_OneExchangePerRun ==
  /\ CodesOfGoodCallbacks
  /\ OthersGet400
  /\ ClosedAfterCallback
  /\ Len(helper.tokenRequests) <= 1

=============================================================================
